---------------------------- MODULE Spec2Model ----------------------------
(***************************************************************************)
(* A model of the financeradar aggregator (src/aggregator.py): the exact   *)
(* URL de-duplication loop of main() and the headline clustering engine    *)
(* group_similar_articles(), with the string functions they rest on        *)
(* (str.lower/strip/rstrip/replace, normalize_title, get_title_signature,  *)
(* difflib.SequenceMatcher.ratio) computed character by character.         *)
(*                                                                         *)
(* Strings are TLA+ strings; s[i] is written Ch(s, i).  Only ASCII text is *)
(* modelled, and titles stay far below the 200 characters at which         *)
(* SequenceMatcher's autojunk heuristic starts to act.                     *)
(***************************************************************************)
EXTENDS Integers, Sequences, FiniteSets, TLC

(***************************************************************************)
(* Python str primitives                                                   *)
(***************************************************************************)

\* s[i] for a 1-based position i of the string s
Ch(s, i) == SubSeq(s, i, i)

\* the characters str.strip() and the regex class \s treat as whitespace
WhitespaceChars == {" ", "\t", "\n", "\r"}

\* the characters of the regex class \w (after lowercasing) and their capitals
LowerLetters == "abcdefghijklmnopqrstuvwxyz"
UpperLetters == "ABCDEFGHIJKLMNOPQRSTUVWXYZ"
DigitsAndUnderscore == "0123456789_"

CharsOf(s) == {Ch(s, i) : i \in 1..Len(s)}

UpperSet == CharsOf(UpperLetters)

WordChars == CharsOf(LowerLetters) \cup UpperSet \cup CharsOf(DigitsAndUnderscore)

\* str.lower() on one character
LowerChar(c) ==
    IF c \in UpperSet
    THEN Ch(LowerLetters, CHOOSE i \in 1..Len(UpperLetters) : Ch(UpperLetters, i) = c)
    ELSE c

RECURSIVE StrLower(_)
\* str.lower()
StrLower(s) ==
    IF s = "" THEN "" ELSE LowerChar(Head(s)) \o StrLower(Tail(s))

RECURSIVE LStrip(_, _)
\* str.lstrip(chars): drop every leading character that is in chars
LStrip(s, chars) ==
    IF s # "" /\ Head(s) \in chars THEN LStrip(Tail(s), chars) ELSE s

RECURSIVE RStrip(_, _)
\* str.rstrip(chars): drop every trailing character that is in chars
RStrip(s, chars) ==
    IF s # "" /\ Ch(s, Len(s)) \in chars
    THEN RStrip(SubSeq(s, 1, Len(s) - 1), chars)
    ELSE s

\* str.strip(): whitespace removed at both ends
StrStrip(s) == RStrip(LStrip(s, WhitespaceChars), WhitespaceChars)

\* str.startswith(prefix)
StartsWith(s, prefix) ==
    Len(prefix) <= Len(s) /\ SubSeq(s, 1, Len(prefix)) = prefix

RECURSIVE StrReplace(_, _, _)
\* str.replace(old, new): every non-overlapping occurrence, left to right
StrReplace(s, old, new) ==
    IF s = "" THEN ""
    ELSE IF StartsWith(s, old)
         THEN new \o StrReplace(SubSeq(s, Len(old) + 1, Len(s)), old, new)
         ELSE Head(s) \o StrReplace(Tail(s), old, new)

(***************************************************************************)
(* Title normalisation and similarity: lines 43-90                         *)
(***************************************************************************)

\* the prefixes normalize_title removes, in the order it tries them
\* (lines 52-56)
TitlePrefixes ==
    <<"breaking:", "exclusive:", "update:", "urgent:", "just in:", "live:",
      "watch:", "video:", "opinion:", "analysis:", "explained:">>

\* re.sub(r'^<prefix>\s*', '', s): the prefix and the whitespace after it
\* are removed at the start of s only (line 58)
StripPrefix(s, prefix) ==
    IF StartsWith(s, prefix)
    THEN LStrip(SubSeq(s, Len(prefix) + 1, Len(s)), WhitespaceChars)
    ELSE s

RECURSIVE StripPrefixes(_, _)
\* the loop over the prefixes from the k-th on (lines 57-58)
StripPrefixes(s, k) ==
    IF k > Len(TitlePrefixes) THEN s
    ELSE StripPrefixes(StripPrefix(s, TitlePrefixes[k]), k + 1)

RECURSIVE PunctToSpace(_)
\* re.sub(r'[^\w\s]', ' ', s) (line 61)
PunctToSpace(s) ==
    IF s = "" THEN ""
    ELSE (IF Head(s) \in WordChars \cup WhitespaceChars THEN Head(s) ELSE " ")
         \o PunctToSpace(Tail(s))

RECURSIVE CollapseSpaces(_)
\* re.sub(r'\s+', ' ', s) (line 62)
CollapseSpaces(s) ==
    IF s = "" THEN ""
    ELSE IF Head(s) \in WhitespaceChars
         THEN " " \o CollapseSpaces(LStrip(s, WhitespaceChars))
         ELSE Head(s) \o CollapseSpaces(Tail(s))

\* normalize_title (lines 43-64)
normalize_title(title) ==
    IF title = "" THEN ""
    ELSE StrStrip(CollapseSpaces(PunctToSpace(StripPrefixes(StrLower(title), 1))))

\* length of the first word of s, which starts with a non-whitespace character
FirstWordLen(s) ==
    CHOOSE n \in 1..Len(s) :
        /\ \A k \in 1..n : Ch(s, k) \notin WhitespaceChars
        /\ n = Len(s) \/ Ch(s, n + 1) \in WhitespaceChars

RECURSIVE SplitWords(_)
\* set(s.split()) (line 87)
SplitWords(s) ==
    LET t == LStrip(s, WhitespaceChars)
    IN  IF t = "" THEN {}
        ELSE LET n == FirstWordLen(t)
             IN  {SubSeq(t, 1, n)} \cup SplitWords(SubSeq(t, n + 1, Len(t)))

\* shortest word get_title_signature keeps (line 89)
MinSignificantLen == 4

\* get_title_signature (lines 84-90)
get_title_signature(title) ==
    {w \in SplitWords(normalize_title(title)) : Len(w) >= MinSignificantLen}

RECURSIVE CommonRun(_, _, _, _, _, _)
\* length of the longest common run a[i..], b[j..] inside a[..ahi], b[..bhi]
CommonRun(a, i, ahi, b, j, bhi) ==
    IF i <= ahi /\ j <= bhi /\ Ch(a, i) = Ch(b, j)
    THEN 1 + CommonRun(a, i + 1, ahi, b, j + 1, bhi)
    ELSE 0

\* SequenceMatcher.find_longest_match(alo, ahi, blo, bhi) without junk: a
\* longest block a[i..i+k-1] = b[j..j+k-1] of the two ranges, the one that
\* starts earliest in a and, among those, earliest in b
find_longest_match(a, alo, ahi, b, blo, bhi) ==
    LET runs_ == {<<i, j, CommonRun(a, i, ahi, b, j, bhi)>> :
                    i \in alo..ahi, j \in blo..bhi}
        best == CHOOSE m \in runs_ :
                    \A o \in runs_ :
                        \/ o[3] < m[3]
                        \/ o[3] = m[3] /\ m[1] < o[1]
                        \/ o[3] = m[3] /\ m[1] = o[1] /\ m[2] <= o[2]
    IN  [i |-> best[1], j |-> best[2], k |-> best[3]]

RECURSIVE MatchedChars(_, _, _, _, _, _)
\* the total size of SequenceMatcher.get_matching_blocks(): the longest
\* block, then the same to its left and to its right
MatchedChars(a, alo, ahi, b, blo, bhi) ==
    IF alo > ahi \/ blo > bhi THEN 0
    ELSE LET m == find_longest_match(a, alo, ahi, b, blo, bhi)
         IN  IF m.k = 0 THEN 0
             ELSE m.k + MatchedChars(a, alo, m.i - 1, b, blo, m.j - 1)
                      + MatchedChars(a, m.i + m.k, ahi, b, m.j + m.k, bhi)

\* the threshold of titles_are_similar (0.75), in hundredths (line 67)
SimilarityThresholdPct == 75

\* SequenceMatcher(None, a, b).ratio() >= threshold, with
\* ratio = 2.0 * matches / (len(a) + len(b)) and 1.0 for two empty strings
RatioAtLeast(a, b, pct) ==
    IF Len(a) + Len(b) = 0 THEN 100 >= pct
    ELSE 2 * MatchedChars(a, 1, Len(a), b, 1, Len(b)) * 100 >= pct * (Len(a) + Len(b))

\* titles_are_similar (lines 67-81)
titles_are_similar(title1, title2) ==
    LET norm1 == normalize_title(title1)
        norm2 == normalize_title(title2)
    IN  IF norm1 = "" \/ norm2 = "" THEN FALSE
        ELSE IF norm1 = norm2 THEN TRUE
        ELSE RatioAtLeast(norm1, norm2, SimilarityThresholdPct)

(***************************************************************************)
(* The titles the model draws, and the values of get_title_signature and   *)
(* titles_are_similar on them, computed once                               *)
(***************************************************************************)

TitleA == "RBI cuts repo rate by 25bps"
TitleB == "RBI Cuts Repo Rate By 25 Bps"
TitleC == "Sensex ends flat"
\* two titles that share no significant word and differ in three letters
TitleD == "Banks raise rates"
TitleE == "Bank raises rate"
\* the title fetch_feed gives an item without one (lines 295, 342)
TitleNone == "No title"
\* a chain: the first and the second are similar, the second and the third
\* are, the first and the third are not (ratio 0.67)
TitleX == "Gold rate rises"
TitleY == "Gold rate rises today"
TitleZ == "Gold rate today"
\* a title that normalize_title maps to that of TitleX
TitleXBreaking == "BREAKING: Gold rate rises!"
\* a title that normalize_title maps to the empty string
TitleBlank == "!!!"

DrawnTitles ==
    {TitleA, TitleB, TitleC, TitleD, TitleE, TitleNone,
     TitleX, TitleY, TitleZ, TitleXBreaking, TitleBlank}

\* <<title, get_title_signature(title)>> for the drawn titles
SignatureTable == {<<t, get_title_signature(t)>> : t \in DrawnTitles}

\* the pairs of drawn titles for which titles_are_similar returns True
SimilarTitlePairs ==
    UNION {IF titles_are_similar(p[1], p[2]) THEN {p} ELSE {} :
              p \in DrawnTitles \X DrawnTitles}

\* get_title_signature(title) for a drawn title (line 123)
SignatureOf(title) == (CHOOSE p \in SignatureTable : p[1] = title)[2]

\* mutant of TitlesSimilar: two titles also match when a third drawn title is
\* similar to both
TitlesSimilarThroughThird(title1, title2) ==
    \/ <<title1, title2>> \in SimilarTitlePairs
    \/ \E t \in DrawnTitles :
          /\ <<title1, t>> \in SimilarTitlePairs
          /\ <<t, title2>> \in SimilarTitlePairs

\* the pairs of drawn titles whose ratio reaches the threshold as they are
\* written, without normalize_title
RawSimilarTitlePairs ==
    UNION {IF p[1] # "" /\ p[2] # "" /\ RatioAtLeast(p[1], p[2], SimilarityThresholdPct)
           THEN {p} ELSE {} : p \in DrawnTitles \X DrawnTitles}

\* mutant of TitlesSimilar: the titles are compared as they are written
TitlesSimilarRaw(title1, title2) == <<title1, title2>> \in RawSimilarTitlePairs

\* the pairs of drawn titles with the same normalized title
SameNormalizedPairs ==
    UNION {IF normalize_title(p[1]) = normalize_title(p[2]) THEN {p} ELSE {} :
              p \in DrawnTitles \X DrawnTitles}

\* mutant of TitlesSimilar: without the test of line 72, two titles that are
\* both empty after normalization are equal and so similar
TitlesSimilarEmptyToo(title1, title2) ==
    \/ <<title1, title2>> \in SimilarTitlePairs
    \/ <<title1, title2>> \in SameNormalizedPairs

\* titles_are_similar(title1, title2) for two drawn titles (line 154)
TitlesSimilar(title1, title2) == <<title1, title2>> \in SimilarTitlePairs

(***************************************************************************)
(* Article records.  "date" is a Python datetime or None: wall is the      *)
(* wall-clock reading in minutes, aware says whether tzinfo is set and off *)
(* is the UTC offset in minutes of an aware datetime.                      *)
(***************************************************************************)

DateNone == [none |-> TRUE, wall |-> 0, aware |-> FALSE, off |-> 0]

DateTime(w, o) == [none |-> FALSE, wall |-> w, aware |-> TRUE, off |-> o]

\* the homepage a feed is configured with ("url" of its feeds.json entry)
SourceUrl(source) == "https://" \o source \o ".com"

Article(title, link, date, source) ==
    [title |-> title, link |-> link, date |-> date,
     source |-> source, source_url |-> SourceUrl(source)]

(***************************************************************************)
(* State                                                                   *)
(***************************************************************************)

VARIABLES
    pc,                \* position of the program
    regular_articles,  \* main(): the list the de-duplication loop reads
    seen_urls,         \* main(): normalized links seen so far
    unique_articles,   \* main(): the de-duplicated list
    di,                \* main(): position of the de-duplication loop
    articles,          \* group_similar_articles(): the list it is called with
    articles_by_date,  \* its buckets, in insertion order: [key, items]
    signatures,        \* its signature of each article, by position
    groups,            \* its result so far
    used,              \* its set of claimed positions
    bkt,               \* position of "for date_key, date_articles in ..."
    idx,               \* position of "for idx, (i, article) in ..."
    jpos,              \* position of "for j, other in date_articles[idx+1:]"
    group,             \* the group under construction
    article_groups,    \* main(): what group_similar_articles returned
    runs,              \* history: [input, output] of each finished pass or call
    feeds,             \* main(): what load_feeds() returned, each feed with
                       \* the response its endpoint gives in this run
    futures,           \* main(): the tasks submitted to the executor
    all_articles,      \* main(): the collected list
    video_articles,    \* main(): the articles of category "Videos"
    twitter_articles,  \* main(): the articles of category "Twitter"
    filtered_articles, \* main(): after the content filter
    recent_articles,   \* main(): after the age gate
    clock,             \* the last reading of datetime.now(IST_TZ), as an instant
    local_offset,      \* UTC offset of the machine's time zone, in minutes
    sorted_groups,     \* generate_html(): the groups in display order
    exported,          \* export_articles_json(): the "articles" it writes
    youtube_cache,     \* the file static/youtube_cache.json
    video_log,         \* history: the videos each run fetched, run by run
    run_count,         \* runs of aggregator main() started so far
    telegram_reports,  \* the file static/telegram_reports.json
    wsw_pc,            \* position of wsw_ranker main()
    wsw_items,         \* wsw_ranker main(): items of load_sources_7d()
    wsw_key,           \* its position in "for key, model_config in WSW_MODELS"
    attempt,           \* its "attempt" of "for attempt in range(2)"
    clusters,          \* its "clusters"
    results,           \* its results["providers"], in insertion order
    wsw_calls,         \* history: the model calls made, [key, attempt]
    tmp_file,          \* the file mkstemp created next to wsw_clusters.json
    wsw_clusters_json, \* the file static/wsw_clusters.json
    exit_status        \* exit status of the wsw_ranker process

dedupVars == <<regular_articles, seen_urls, unique_articles, di>>

clusterVars ==
    <<articles, articles_by_date, signatures, groups, used, bkt, idx, jpos,
      group, article_groups>>

fetchVars == <<feeds, futures, all_articles>>

stageVars ==
    <<video_articles, twitter_articles, filtered_articles, recent_articles,
      clock, local_offset, sorted_groups, exported>>

cacheVars == <<youtube_cache, video_log, run_count>>

rankerVars ==
    <<telegram_reports, wsw_pc, wsw_items, wsw_key, attempt, clusters, results,
      wsw_calls, tmp_file, wsw_clusters_json, exit_status>>

aggregatorVars ==
    <<pc, dedupVars, clusterVars, runs, fetchVars, stageVars, cacheVars>>

mainVars == <<fetchVars, stageVars, cacheVars, rankerVars>>

vars == <<pc, dedupVars, clusterVars, runs, mainVars>>

(***************************************************************************)
(* Exact URL de-duplication: main(), lines 4511-4531                       *)
(***************************************************************************)

\* mutant of NormalizeUrl: the trailing slash is stripped before the whitespace
NormalizeUrlSlashFirst(link) ==
    StrReplace(StrStrip(RStrip(StrLower(link), {"/"})), "http://", "https://")

\* the comparison key of a link (lines 4521-4522)
NormalizeUrl(link) ==
    StrReplace(RStrip(StrStrip(StrLower(link)), {"/"}), "http://", "https://")

\* mutant of IsBlankLink: the whitespace-only test is missing
IsBlankLinkNoStrip(link) == link = ""

\* "if not article['link'] or not article['link'].strip()" (line 4517)
IsBlankLink(link) == link = "" \/ StrStrip(link) = ""

\* mutant of FreshSeenUrls: the set of an earlier pass is kept
StaleSeenUrls == seen_urls

\* "seen_urls = set()" (line 4512): each pass starts with nothing seen
FreshSeenUrls == {}

\* what the loop appends for an article it keeps (line 4529)
KeptArticle(article, url) == article

\* lines 4512-4513
DedupStart ==
    /\ pc = "dedup_init"
    /\ seen_urls' = FreshSeenUrls
    /\ unique_articles' = <<>>
    /\ di' = 1
    /\ pc' = "dedup_loop"
    /\ UNCHANGED <<regular_articles, runs, clusterVars, mainVars>>

\* one iteration of "for article in regular_articles" (lines 4515-4529)
DedupStep ==
    /\ pc = "dedup_loop"
    /\ di <= Len(regular_articles)
    /\ LET article == regular_articles[di]
           url == NormalizeUrl(article.link)
       IN  IF IsBlankLink(article.link) \/ url \in seen_urls
           THEN UNCHANGED <<seen_urls, unique_articles>>
           ELSE /\ seen_urls' = seen_urls \cup {url}
                /\ unique_articles' = Append(unique_articles, KeptArticle(article, url))
    /\ di' = di + 1
    /\ UNCHANGED <<pc, regular_articles, runs, clusterVars, mainVars>>

\* the loop is exhausted (line 4531)
DedupDone ==
    /\ pc = "dedup_loop"
    /\ di > Len(regular_articles)
    /\ pc' = "dedup_done"
    /\ runs' = Append(runs, [input |-> regular_articles, output |-> unique_articles])
    /\ UNCHANGED <<dedupVars, clusterVars, mainVars>>

(***************************************************************************)
(* Headline clustering: group_similar_articles(), lines 93-167             *)
(***************************************************************************)

MinutesPerDay == 1440

\* IST_TZ = timezone(timedelta(hours=5, minutes=30)), in minutes (line 32)
IstOffsetMinutes == 330

\* to_local_datetime (lines 445-456): the datetime as an IST datetime, a
\* datetime without tzinfo being read as UTC
to_local_datetime(date) ==
    IF date.none THEN date
    ELSE [none |-> FALSE,
          wall |-> date.wall - (IF date.aware THEN date.off ELSE 0) + IstOffsetMinutes,
          aware |-> TRUE,
          off |-> IstOffsetMinutes]

\* two decimal digits
TwoDigits(n) == (IF n < 10 THEN "0" ELSE "") \o ToString(n)

\* datetime.strftime("%Y-%m-%d"): the date of the wall-clock reading, whatever
\* the UTC offset.  Minute 0 is 2024-01-01 00:00 and the model's datetimes
\* lie in January 2024.
StrftimeDate(date) ==
    "2024-01-" \o TwoDigits((date.wall \div MinutesPerDay) + 1)

\* mutant of DateKey: the date is rendered after conversion to IST
DateKeyInIst(article) ==
    IF article.date.none THEN "" ELSE StrftimeDate(to_local_datetime(article.date))

\* the bucket key of an article (lines 109-114)
DateKey(article) ==
    IF article.date.none THEN "" ELSE StrftimeDate(article.date)

\* mutant of BucketsFrom: every bucket lists its articles last position first
BucketsLastFirst(arts, i, buckets) ==
    LET n == Len(arts)
        Key(p) == DateKey(arts[p])
        firsts == {p \in 1..n : \A q \in 1..(p - 1) : Key(q) # Key(p)}
        nth(k) == CHOOSE p \in firsts : Cardinality({q \in firsts : q < p}) = k - 1
        members(p) == {q \in 1..n : Key(q) = Key(p)}
        falling(S) == [m \in 1..Cardinality(S) |->
                          CHOOSE q \in S : Cardinality({r \in S : r > q}) = m - 1]
    IN  [k \in 1..Cardinality(firsts) |->
            [key |-> Key(nth(k)), items |-> falling(members(nth(k)))]]

RECURSIVE BucketsFrom(_, _, _)
\* the loop of lines 108-115 from position i on: article i is appended to
\* the bucket of its key, a new key opening a new bucket at the end
BucketsFrom(arts, i, buckets) ==
    IF i > Len(arts) THEN buckets
    ELSE LET key == DateKey(arts[i])
             at == {p \in 1..Len(buckets) : buckets[p].key = key}
         IN  BucketsFrom(arts, i + 1,
                 IF at = {}
                 THEN Append(buckets, [key |-> key, items |-> <<i>>])
                 ELSE [p \in 1..Len(buckets) |->
                          IF p \in at
                          THEN [buckets[p] EXCEPT !.items = Append(@, i)]
                          ELSE buckets[p]])

\* mutant of FreshUsed: the claimed positions of an earlier call are kept
StaleUsed == used

\* "used = set()" (line 118): each call starts with nothing claimed
FreshUsed == {}

\* mutant of PrefilterSkips: the quick filter is missing
PrefilterNeverSkips(sig_i, sig_j) == FALSE

\* the quick filter (lines 147-152): with both signatures non-empty, skip the
\* candidate when overlap / min_len < 0.5
PrefilterSkips(sig_i, sig_j) ==
    /\ sig_i # {}
    /\ sig_j # {}
    /\ LET overlap == Cardinality(sig_i \cap sig_j)
           min_len == IF Cardinality(sig_i) <= Cardinality(sig_j)
                      THEN Cardinality(sig_i) ELSE Cardinality(sig_j)
       IN  min_len > 0 /\ 2 * overlap < min_len

\* mutant of ListsAsRelated: every similar article is listed
ListsAsRelatedAlways(article, other) == TRUE

\* "if other['source'] != article['source']" (line 156)
ListsAsRelated(article, other) == other.source # article.source

\* mutant of RelatedEntry: the article link is stored as the site URL
RelatedEntryLinkAsUrl(other) ==
    [name |-> other.source, url |-> other.link, link |-> other.link]

\* the entry appended to related_sources (lines 157-161)
RelatedEntry(other) ==
    [name |-> other.source, url |-> other.source_url, link |-> other.link]

\* mutant of ClaimedWith: a matched candidate is not marked as used
ClaimedWithout(claimed, j) == claimed

\* "used.add(j)" (line 163)
ClaimedWith(claimed, j) == claimed \cup {j}

\* the value of "group" before the first group is opened
NoGroup == <<>>

\* no call of group_similar_articles has been made
ClusterIdle ==
    /\ articles = <<>>
    /\ articles_by_date = <<>>
    /\ signatures = <<>>
    /\ groups = <<>>
    /\ used = {}
    /\ bkt = 1
    /\ idx = 1
    /\ jpos = 1
    /\ group = NoGroup
    /\ article_groups = <<>>

\* the call and the set-up of lines 104-123
ClusterCall ==
    /\ pc = "cluster_call"
    /\ articles_by_date' = BucketsFrom(articles, 1, <<>>)
    /\ groups' = <<>>
    /\ used' = FreshUsed
    /\ signatures' = [i \in 1..Len(articles) |-> SignatureOf(articles[i].title)]
    /\ bkt' = 1
    /\ idx' = 1
    /\ pc' = "cluster_outer"
    /\ UNCHANGED <<articles, jpos, group, article_groups, runs, dedupVars, mainVars>>

\* the items of the bucket the outer loops are in
date_articles == articles_by_date[bkt].items

\* "if i in used: continue" (lines 126-128)
ClusterSkipUsed ==
    /\ pc = "cluster_outer"
    /\ bkt <= Len(articles_by_date)
    /\ idx <= Len(date_articles)
    /\ date_articles[idx] \in used
    /\ idx' = idx + 1
    /\ UNCHANGED <<pc, articles, articles_by_date, signatures, groups, used, bkt,
                   jpos, group, article_groups, runs, dedupVars, mainVars>>

\* mutant of InnerStart: the article right behind the primary is not scanned
InnerStartSkipsNext(i) == i + 2

\* mutant of InnerStart: the candidates are scanned from the first position
InnerStartFromFirst(i) == 1

\* "date_articles[idx + 1:]" (line 141): the scan starts behind the primary
InnerStart(i) == i + 1

\* a new group is started with an unclaimed article (lines 126-138)
ClusterOpenGroup ==
    /\ pc = "cluster_outer"
    /\ bkt <= Len(articles_by_date)
    /\ idx <= Len(date_articles)
    /\ date_articles[idx] \notin used
    /\ LET i == date_articles[idx]
       IN  /\ group' = [primary |-> articles[i],
                        related_sources |-> <<>>,
                        all_articles |-> <<articles[i]>>]
           /\ used' = used \cup {i}
    /\ jpos' = InnerStart(idx)
    /\ pc' = "cluster_inner"
    /\ UNCHANGED <<articles, articles_by_date, signatures, groups, bkt, idx,
                   article_groups, runs, dedupVars, mainVars>>

\* one iteration of "for j, other in date_articles[idx + 1:]" (lines 141-163)
ClusterCompare ==
    /\ pc = "cluster_inner"
    /\ jpos <= Len(date_articles)
    /\ LET i == date_articles[idx]
           j == date_articles[jpos]
           article == articles[i]
           other == articles[j]
       IN  IF j \in used THEN UNCHANGED <<group, used>>
           ELSE IF PrefilterSkips(signatures[i], signatures[j])
                THEN UNCHANGED <<group, used>>
           ELSE IF TitlesSimilar(article.title, other.title)
                THEN /\ group' =
                          [group EXCEPT
                              !.related_sources =
                                  IF ListsAsRelated(article, other)
                                  THEN Append(@, RelatedEntry(other))
                                  ELSE @,
                              !.all_articles = Append(@, other)]
                     /\ used' = ClaimedWith(used, j)
                ELSE UNCHANGED <<group, used>>
    /\ jpos' = jpos + 1
    /\ UNCHANGED <<pc, articles, articles_by_date, signatures, groups, bkt, idx,
                   article_groups, runs, dedupVars, mainVars>>

\* the inner loop is exhausted: "groups.append(group)" (line 165)
ClusterEmit ==
    /\ pc = "cluster_inner"
    /\ jpos > Len(date_articles)
    /\ groups' = Append(groups, group)
    /\ idx' = idx + 1
    /\ pc' = "cluster_outer"
    /\ UNCHANGED <<articles, articles_by_date, signatures, used, bkt, jpos,
                   group, article_groups, runs, dedupVars, mainVars>>

\* a bucket is exhausted: the next item of articles_by_date (line 125)
ClusterNextBucket ==
    /\ pc = "cluster_outer"
    /\ bkt <= Len(articles_by_date)
    /\ idx > Len(date_articles)
    /\ bkt' = bkt + 1
    /\ idx' = 1
    /\ UNCHANGED <<pc, articles, articles_by_date, signatures, groups, used,
                   jpos, group, article_groups, runs, dedupVars, mainVars>>

\* "return groups" (line 167), assigned by main (line 4569)
ClusterReturn ==
    /\ pc = "cluster_outer"
    /\ bkt > Len(articles_by_date)
    /\ article_groups' = groups
    /\ runs' = Append(runs, [input |-> articles, output |-> groups])
    /\ pc' = "cluster_done"
    /\ UNCHANGED <<articles, articles_by_date, signatures, groups, used, bkt,
                   idx, jpos, group, dedupVars, mainVars>>

(***************************************************************************)
(* The run: main(), lines 4423-4577, with the functions it calls           *)
(***************************************************************************)

\* a file that does not exist
NoFile == [exists |-> FALSE, type |-> "none", items |-> <<>>]

\* a file holding a JSON array with these elements
JsonArrayFile(elements) == [exists |-> TRUE, type |-> "array", items |-> elements]

\* a file holding a JSON object with these members
JsonObjectFile(members) == [exists |-> TRUE, type |-> "object", items |-> members]

\* no YouTube cache has been written and no run has started
CacheIdle ==
    /\ youtube_cache = NoFile
    /\ video_log = <<>>
    /\ run_count = 0

\* a parsed JSON value: the text of a string, the number of a number, the
\* elements of an array, the members of an object
JsonValue(type, text, number, elements, members) ==
    [type |-> type, text |-> text, number |-> number, elements |-> elements,
     members |-> members]

JsonArray(elements) == JsonValue("array", "", 0, elements, <<>>)

JsonObject(members) == JsonValue("object", "", 0, <<>>, members)

JsonString(text) == JsonValue("string", text, 0, <<>>, <<>>)

JsonNumber(n) == JsonValue("number", "", n, <<>>, <<>>)

\* Python's None
JsonNone == JsonValue("null", "", 0, <<>>, <<>>)

\* a member of a JSON object
Member(key, value) == [key |-> key, value |-> value]

\* results of a ranker that has not started
NoResults == [generated_at |-> "", item_count |-> 0, providers |-> <<>>]

\* wsw_ranker has not been started
RankerIdle ==
    /\ telegram_reports = NoFile
    /\ wsw_pc = "idle"
    /\ wsw_items = <<>>
    /\ wsw_key = 1
    /\ attempt = 0
    /\ clusters = JsonNone
    /\ results = NoResults
    /\ wsw_calls = <<>>
    /\ tmp_file = NoFile
    /\ wsw_clusters_json = NoFile
    /\ exit_status = "none"

\* no run of main() has started
MainIdle ==
    /\ CacheIdle
    /\ RankerIdle
    /\ feeds = <<>>
    /\ futures = <<>>
    /\ all_articles = <<>>
    /\ video_articles = <<>>
    /\ twitter_articles = <<>>
    /\ filtered_articles = <<>>
    /\ recent_articles = <<>>
    /\ clock = 0
    /\ local_offset = 0
    /\ sorted_groups = <<>>
    /\ exported = [written |-> FALSE, articles |-> <<>>]

\* a datetime without tzinfo, as parse_date returns for a date string that
\* names no time zone (lines 207-214)
NaiveDateTime(w) == [none |-> FALSE, wall |-> w, aware |-> FALSE, off |-> 0]

\* feed_config.get("category", "News") (lines 301, 348, 407)
FeedCategory(feed) == IF feed.has_category THEN feed.category ELSE "News"

\* the dict fetch_feed appends for an item (lines 341-351): a missing or empty
\* title reads "No title"
FeedArticle(feed, item) ==
    [title |-> IF item.title = "" THEN "No title" ELSE item.title,
     link |-> item.link,
     date |-> item.date,
     source |-> feed.name,
     source_url |-> feed.url,
     category |-> FeedCategory(feed)]

RECURSIVE ParseFeedItems(_, _, _)
\* the loop over the items of a parsed feed (lines 319-351), from item k on
ParseFeedItems(feed, k, parsed) ==
    IF k > Len(feed.response.items) THEN parsed
    ELSE ParseFeedItems(feed, k + 1,
             Append(parsed, FeedArticle(feed, feed.response.items[k])))

\* fetch_feed (lines 224-358) as the future sees it: a feed_config without
\* "url" raises KeyError before the try (line 228); a response that is no
\* parsable feed raises inside the try and the function returns what it has
\* (lines 355-358)
fetch_feed(feed) ==
    IF ~feed.has_url
    THEN [raised |-> TRUE, failed |-> FALSE, articles |-> <<>>]
    ELSE IF ~feed.response.ok
    THEN [raised |-> FALSE, failed |-> TRUE, articles |-> <<>>]
    ELSE [raised |-> FALSE, failed |-> FALSE,
          articles |-> ParseFeedItems(feed, 1, <<>>)]

\* link of a CareRatings item (line 385)
CareRatingsLink(pdf) == "https://www.careratings.com/uploads/newsfiles/" \o pdf

RECURSIVE ParseCareRatingsItems(_, _, _)
\* the loop over data["data"] (lines 380-409), from item k on: an item whose
\* "Title" is null raises AttributeError at line 381 and ends the loop; an
\* item with an empty title or no PDf is skipped (lines 383-384)
ParseCareRatingsItems(feed, k, parsed) ==
    IF k > Len(feed.response.items)
    THEN [raised |-> FALSE, failed |-> FALSE, articles |-> parsed]
    ELSE LET item == feed.response.items[k]
         IN  IF item.title_is_null
             THEN [raised |-> FALSE, failed |-> TRUE, articles |-> parsed]
             ELSE IF StrStrip(item.title) = "" \/ item.link = ""
             THEN ParseCareRatingsItems(feed, k + 1, parsed)
             ELSE ParseCareRatingsItems(feed, k + 1,
                      Append(parsed,
                             [title |-> StrStrip(item.title),
                              link |-> CareRatingsLink(item.link),
                              date |-> item.date,
                              source |-> feed.name,
                              source_url |-> feed.url,
                              category |-> FeedCategory(feed)]))

\* fetch_careratings (lines 361-416) as the future sees it: KeyError before
\* the try without "url" (line 364); whatever is raised inside the try is
\* caught and the articles appended so far are returned (lines 413-416)
fetch_careratings(feed) ==
    IF ~feed.has_url
    THEN [raised |-> TRUE, failed |-> FALSE, articles |-> <<>>]
    ELSE IF ~feed.response.ok
    THEN [raised |-> FALSE, failed |-> TRUE, articles |-> <<>>]
    ELSE ParseCareRatingsItems(feed, 1, <<>>)

\* "if feed.get('feed', '').startswith('careratings:')" (line 4442)
IsCareRatings(feed) == StartsWith(feed.feed, "careratings:")

\* what the task submitted for a feed computes (lines 4442-4445)
WorkerResult(feed) ==
    IF IsCareRatings(feed) THEN fetch_careratings(feed) ELSE fetch_feed(feed)

\* ThreadPoolExecutor(max_workers=10) (line 4439)
max_workers == 10

\* the tasks a worker thread is running
RunningFutures == {i \in 1..Len(futures) : futures[i].state = "running"}

\* "feeds = load_feeds(); if not feeds: ... return" (lines 4429-4432)
LoadFeeds ==
    /\ pc = "start"
    /\ pc' = IF feeds = <<>> THEN "done" ELSE "submit"
    /\ UNCHANGED <<dedupVars, clusterVars, runs, mainVars>>

\* one iteration of "for feed in feeds: futures[executor.submit(...)] = feed"
\* (lines 4441-4445); after the last one main enters as_completed
Submit ==
    /\ pc = "submit"
    /\ Len(futures) < Len(feeds)
    /\ futures' = Append(futures,
                         [state |-> "pending", collected |-> FALSE,
                          raised |-> FALSE, failed |-> FALSE,
                          articles |-> <<>>])
    /\ pc' = IF Len(futures) + 1 = Len(feeds) THEN "collect" ELSE "submit"
    /\ UNCHANGED <<dedupVars, clusterVars, runs, feeds, all_articles,
                   stageVars, cacheVars,
                   rankerVars>>

\* a worker thread of the pool takes a pending task
WorkerStart(i) ==
    /\ i \in 1..Len(futures)
    /\ futures[i].state = "pending"
    /\ Cardinality(RunningFutures) < max_workers
    /\ futures' = [futures EXCEPT ![i].state = "running"]
    /\ UNCHANGED <<pc, dedupVars, clusterVars, runs, feeds, all_articles,
                   stageVars, cacheVars,
                   rankerVars>>

\* the task returns or raises in its worker thread: the future is done
WorkerFinish(i) ==
    /\ i \in 1..Len(futures)
    /\ futures[i].state = "running"
    /\ LET r == WorkerResult(feeds[i])
       IN  futures' = [futures EXCEPT ![i] =
                          [state |-> "done", collected |-> FALSE,
                           raised |-> r.raised, failed |-> r.failed,
                           articles |-> r.articles]]
    /\ UNCHANGED <<pc, dedupVars, clusterVars, runs, feeds, all_articles,
                   stageVars, cacheVars,
                   rankerVars>>

\* one iteration of "for future in as_completed(futures)" (lines 4447-4453):
\* a done future is yielded once; its result extends all_articles, or its
\* exception is printed
Collect(i) ==
    /\ pc = "collect"
    /\ i \in 1..Len(futures)
    /\ futures[i].state = "done"
    /\ ~futures[i].collected
    /\ futures' = [futures EXCEPT ![i].collected = TRUE]
    /\ all_articles' = IF futures[i].raised THEN all_articles
                       ELSE all_articles \o futures[i].articles
    /\ UNCHANGED <<pc, dedupVars, clusterVars, runs, feeds, stageVars, cacheVars,
                   rankerVars>>

\* mutant of AllCollected: the loop ends after the first future
FirstCollected == \E i \in 1..Len(futures) : futures[i].collected

\* as_completed is exhausted: every submitted future has been yielded
\* (line 4447); the with block then shuts the executor down (line 4439)
AllCollected == \A i \in 1..Len(futures) : futures[i].collected

(***************************************************************************)
(* The content filter: should_filter_article, filters.py lines 265-280     *)
(***************************************************************************)

\* "sub in s" of Python
Contains(s, sub) ==
    \E k \in 1..(Len(s) - Len(sub) + 1) : SubSeq(s, k, k + Len(sub) - 1) = sub

\* FILTER_URL_PATTERNS (filters.py lines 234-259)
FILTER_URL_PATTERNS ==
    {"/pr-release/", "/brandhub/", "/press-release/", "prnewswire.com",
     "businesswire.com", "/cartoon", "/cartoons", "/video", "/videos",
     "/podcast", "/travel", "/sports", "/weather", "/review", "/reviews",
     "/infographic", "/fashion", "/entertainment", "downtoearth.org.in/food",
     "etnownews.com/technology", "etnownews.com/personal-finance",
     "/personal-finance/", "/lifestyle", "/multimedia/audio/"}

\* the verbs of the first two patterns of FILTER_TITLE_PATTERNS
MarketVerbs ==
    {"closes", "ends", "opens", "gains", "loses", "falls", "rises", "at"}

\* the patterns of FILTER_TITLE_PATTERNS that stand for finitely many literal
\* strings (filters.py lines 19-20, 22, 25, 30-31, 34, 38, 41, 46-48,
\* 63-64, 68-71, 80-81, 83-84), written out; the other patterns of the table hold a
\* wildcard or a character class and match no title that occurs here
LiteralTitlePatterns ==
    {w \o " " \o v : w \in {"sensex", "nifty"}, v \in MarketVerbs}
    \cup {"market " \o v \o " " \o h :
             v \in {"closes", "ends", "opens"},
             h \in {"at", "flat", "higher", "lower"}}
    \cup {"crude oil price today", "forex rate today", "currency rate today",
          "money market operations as on", "weekly statistical supplement",
          "auction result", "stock market live", "market live updates",
          "trading live", "trading holiday", "banks closed",
          "markets this week", "monthly roundup", "weekly roundup",
          "week in review", "stock tip", "intraday tip", "multibagger",
          "stocks to buy"}

\* "for pattern in FILTER_URL_PATTERNS: if pattern.lower() in link"
\* (filters.py lines 270-273)
LinkMatchesFilter(link) ==
    \E pattern \in FILTER_URL_PATTERNS : Contains(StrLower(link), StrLower(pattern))

\* "for pattern in COMPILED_TITLE_PATTERNS: if pattern.search(title)"
\* (filters.py lines 275-278)
TitleMatchesFilter(title) ==
    \E pattern \in LiteralTitlePatterns : Contains(StrLower(title), pattern)

(***************************************************************************)
(* The feeds a run is drawn from: each with the response of its endpoint   *)
(***************************************************************************)

\* 2024-01-10 09:00 +05:30
DateX == DateTime(9 * MinutesPerDay + 9 * 60, 330)
\* 2024-01-10 20:00 +00:00, which is 2024-01-11 01:30 in IST
DateY == DateTime(9 * MinutesPerDay + 20 * 60, 0)
\* 2024-01-11 01:30 +05:30, the same instant as DateY
DateZ == DateTime(10 * MinutesPerDay + 90, 330)
\* 2024-01-12 09:00 +05:30
DateP == DateTime(11 * MinutesPerDay + 9 * 60, 330)
\* 2024-01-12 00:00 +05:30, as fetch_careratings reads "12-01-2024"
DateQ == DateTime(11 * MinutesPerDay, 330)
\* 2024-01-03 09:00 +05:30
DateOld == DateTime(2 * MinutesPerDay + 9 * 60, 330)
\* 2024-01-10 09:00 without a time zone
NaiveX == NaiveDateTime(9 * MinutesPerDay + 9 * 60)

\* readings of datetime.now(IST_TZ), as instants (minutes of UTC): 2024-01-15
\* 09:00 +05:30, five days after DateX to the minute, and a minute later
ClockReadings ==
    {14 * MinutesPerDay + 9 * 60 - IstOffsetMinutes,
     14 * MinutesPerDay + 9 * 60 - IstOffsetMinutes + 1}

\* UTC offsets of the machines the program runs on: UTC and IST
LocalOffsets == {0, IstOffsetMinutes}

\* an item of a response: for a feed its title, link and parsed date; for
\* CareRatings its "Title", "PDf" and parsed "Date"
Item(title, link, date) ==
    [title |-> title, link |-> link, date |-> date, title_is_null |-> FALSE]

\* a CareRatings item whose "Title" is null
NullTitleItem ==
    [title |-> "", link |-> "n.pdf", date |-> DateNone, title_is_null |-> TRUE]

\* a response that is a parsable document with these items
Ok(items) == [ok |-> TRUE, items |-> items]

\* no usable response: a network error, a timeout, malformed XML or JSON
NoResponse == [ok |-> FALSE, items |-> <<>>]

TitleTweet == "Markets wrap"

\* a news feed with every key
FeedA(response) ==
    [name |-> "A", feed |-> "https://A.com/rss", url |-> "https://A.com",
     has_url |-> TRUE, has_category |-> TRUE, category |-> "News",
     response |-> response]

\* a CareRatings source without "category"
FeedB(response) ==
    [name |-> "B", feed |-> "careratings:23", url |-> "https://B.com",
     has_url |-> TRUE, has_category |-> FALSE, category |-> "",
     response |-> response]

\* a feed of another category
FeedOf(name, category, response) ==
    [name |-> name, feed |-> "https://" \o name \o ".com/rss",
     url |-> "https://" \o name \o ".com",
     has_url |-> TRUE, has_category |-> TRUE, category |-> category,
     response |-> response]

\* a feed whose entry in feeds.json has no "url"
FeedU ==
    [name |-> "U", feed |-> "https://U.com/rss", url |-> "",
     has_url |-> FALSE, has_category |-> TRUE, category |-> "News",
     response |-> Ok(<<Item(TitleA, "https://U.com/1", DateP)>>)]

DrawnFeeds ==
    {FeedA(Ok(<<Item(TitleA, "https://A.com/1", DateP),
                Item(TitleD, "https://A.com/5", DateP),
                Item(TitleD, "https://A.com/6", DateP)>>)),
     FeedA(Ok(<<Item(TitleC, "https://x.com/y", DateP),
                Item(TitleA, "http://x.com/y/", DateP)>>)),
     FeedA(Ok(<<Item(TitleA, "https://A.com/1", DateOld),
                Item("", "https://A.com/2", DateNone),
                Item(TitleD, "https://A.com/3", DateX),
                Item(TitleD, "https://A.com/4", NaiveX)>>)),
     FeedA(Ok(<<>>)),
     FeedA(NoResponse),
     FeedB(Ok(<<Item(TitleB, "b1.pdf", DateQ)>>)),
     FeedB(Ok(<<Item(TitleB, "b1.pdf", DateQ), NullTitleItem>>)),
     FeedB(Ok(<<Item(" ", "b2.pdf", DateQ), Item(TitleE, "b3.pdf", DateQ)>>)),
     FeedB(NoResponse),
     FeedOf("V", "Videos", Ok(<<Item(TitleA, "https://V.com/watch?v=1", DateP)>>)),
     FeedOf("T", "Twitter", Ok(<<Item(TitleTweet, "https://T.com/1", DateOld),
                                 Item(TitleTweet, "https://T.com/2", DateP)>>)),
     FeedU}

\* the articles the drawn feeds can contribute
DrawnFeedArticles ==
    UNION {{WorkerResult(f).articles[k] : k \in 1..Len(WorkerResult(f).articles)} :
              f \in DrawnFeeds}

\* the links among them that FILTER_URL_PATTERNS rejects
RejectedLinks ==
    UNION {IF LinkMatchesFilter(a.link) THEN {a.link} ELSE {} :
              a \in DrawnFeedArticles}

\* the titles among them that FILTER_TITLE_PATTERNS rejects
RejectedTitles ==
    UNION {IF TitleMatchesFilter(a.title) THEN {a.title} ELSE {} :
              a \in DrawnFeedArticles}

\* should_filter_article(article) (filters.py lines 265-280) for an article
\* of the drawn feeds
should_filter_article(article) ==
    article.link \in RejectedLinks \/ article.title \in RejectedTitles

\* minutes from 1970-01-01 00:00 UTC to 2024-01-01 00:00 UTC
UnixMinutes2024 == 28401120

\* get_sort_timestamp (lines 432-442), in minutes: 0 without a date, else
\* dt.timestamp(), which reads a datetime without tzinfo in the machine's
\* time zone
get_sort_timestamp(article) ==
    IF article.date.none THEN 0
    ELSE UnixMinutes2024 + article.date.wall
         - (IF article.date.aware THEN article.date.off ELSE local_offset)

\* mutant of get_group_timestamp: the wall-clock reading, whatever the offset
get_group_wall_clock(g) ==
    IF g.primary.date.none THEN 0 ELSE UnixMinutes2024 + g.primary.date.wall

\* get_group_timestamp (lines 493-494)
get_group_timestamp(g) == get_sort_timestamp(g.primary)

\* list.sort(key=get_sort_timestamp, reverse=True) (lines 4464-4465): a
\* stable sort, equal keys keeping their order.  An element's place is one
\* more than the number of elements with a larger key and of earlier
\* elements with an equal key.
SortArticlesNewestFirst(seq) ==
    LET key == [k \in 1..Len(seq) |-> get_sort_timestamp(seq[k])]
        place == [k \in 1..Len(seq) |->
                     1 + Cardinality({j \in 1..Len(seq) :
                             \/ key[j] > key[k]
                             \/ key[j] = key[k] /\ j < k})]
    IN  [p \in 1..Len(seq) |-> seq[CHOOSE k \in 1..Len(seq) : place[k] = p]]

\* list.sort(key=get_group_timestamp, reverse=True) (lines 499, 515)
SortGroupsNewestFirst(seq) ==
    LET key == [k \in 1..Len(seq) |-> get_group_timestamp(seq[k])]
        place == [k \in 1..Len(seq) |->
                     1 + Cardinality({j \in 1..Len(seq) :
                             \/ key[j] > key[k]
                             \/ key[j] = key[k] /\ j < k})]
    IN  [p \in 1..Len(seq) |-> seq[CHOOSE k \in 1..Len(seq) : place[k] = p]]

\* the with block is left and the collected list is split by category
\* (lines 4455-4465)
Split ==
    /\ pc = "collect"
    /\ AllCollected
    /\ LET IsVideo(a) == a.category = "Videos"
           IsTwitter(a) == a.category = "Twitter"
           IsRegular(a) == a.category \notin {"Videos", "Twitter"}
       IN  /\ video_articles' =
                  SortArticlesNewestFirst(SelectSeq(all_articles, IsVideo))
           /\ twitter_articles' =
                  SortArticlesNewestFirst(SelectSeq(all_articles, IsTwitter))
           /\ regular_articles' = SelectSeq(all_articles, IsRegular)
    /\ pc' = "youtube_cache"
    /\ UNCHANGED <<seen_urls, unique_articles, di, clusterVars, runs, feeds,
                   futures, all_articles, filtered_articles, recent_articles,
                   clock, local_offset, sorted_groups, exported,
                   cacheVars, rankerVars>>

\* timedelta(days=5) (lines 4506, 4547)
RetentionDays == 5

\* the instant of a datetime as the age filters compare it: a datetime
\* without tzinfo gets tzinfo=IST_TZ (lines 4509, 4558-4559)
InstantAssumingIst(date) ==
    date.wall - (IF date.aware THEN date.off ELSE IstOffsetMinutes)

\* mutant of IsRecent: a datetime equal to the cutoff is old
IsRecentStrict(date, now) ==
    \/ date.none
    \/ InstantAssumingIst(date) > now - RetentionDays * MinutesPerDay

\* the test of the age filters (lines 4508-4509, 4554-4561): no date, or
\* not before the cutoff
IsRecent(date, now) ==
    \/ date.none
    \/ InstantAssumingIst(date) >= now - RetentionDays * MinutesPerDay

\* the Twitter articles older than five days are dropped (lines 4505-4509);
\* datetime.now reads the clock, which does not go back
TwitterCutoff ==
    /\ pc = "twitter_cutoff"
    /\ \E now \in ClockReadings :
          /\ now >= clock
          /\ clock' = now
          /\ LET Fresh(t) == IsRecent(t.date, now)
             IN  twitter_articles' = SelectSeq(twitter_articles, Fresh)
    /\ pc' = "dedup_init"
    /\ UNCHANGED <<dedupVars, clusterVars, runs, feeds, futures, all_articles,
                   video_articles, filtered_articles, recent_articles,
                   local_offset, sorted_groups, exported,
                   cacheVars, rankerVars>>

\* the content filter (lines 4533-4543)
ContentFilter ==
    /\ pc = "dedup_done"
    /\ LET Admitted(a) == ~should_filter_article(a)
       IN  filtered_articles' = SelectSeq(unique_articles, Admitted)
    /\ pc' = "age_gate"
    /\ UNCHANGED <<dedupVars, clusterVars, runs, feeds, futures, all_articles,
                   video_articles, twitter_articles, recent_articles, clock,
                   local_offset, sorted_groups, exported,
                   cacheVars, rankerVars>>

\* the age gate (lines 4545-4563)
AgeGate ==
    /\ pc = "age_gate"
    /\ \E now \in ClockReadings :
          /\ now >= clock
          /\ clock' = now
          /\ LET Fresh(a) == IsRecent(a.date, now)
             IN  recent_articles' = SelectSeq(filtered_articles, Fresh)
    /\ pc' = "group"
    /\ UNCHANGED <<dedupVars, clusterVars, runs, feeds, futures, all_articles,
                   video_articles, twitter_articles, filtered_articles,
                   local_offset, sorted_groups, exported,
                   cacheVars, rankerVars>>

\* "filtered_articles = recent_articles" and the call of
\* group_similar_articles(filtered_articles) (lines 4565-4569)
CallGroupSimilarArticles ==
    /\ pc = "group"
    /\ filtered_articles' = recent_articles
    /\ articles' = recent_articles
    /\ pc' = "cluster_call"
    /\ UNCHANGED <<dedupVars, articles_by_date, signatures, groups, used, bkt,
                   idx, jpos, group, article_groups, runs, feeds, futures,
                   all_articles, video_articles, twitter_articles,
                   recent_articles, clock, local_offset, sorted_groups,
                   exported,
                   cacheVars, rankerVars>>

\* MAX_PER_FEED (line 503)
MAX_PER_FEED == 50

RECURSIVE CapPerFeed(_, _, _, _)
\* the loop of lines 507-512 from group k on: a group is kept while fewer
\* than MAX_PER_FEED groups of its primary's source have been kept
CapPerFeed(all_sorted_groups, k, source_counts, capped_groups) ==
    IF k > Len(all_sorted_groups) THEN capped_groups
    ELSE LET g == all_sorted_groups[k]
             source == g.primary.source
             count == IF source \in DOMAIN source_counts
                      THEN source_counts[source] ELSE 0
         IN  IF count < MAX_PER_FEED
             THEN CapPerFeed(all_sorted_groups, k + 1,
                      [s \in DOMAIN source_counts \cup {source} |->
                          IF s = source THEN count + 1 ELSE source_counts[s]],
                      Append(capped_groups, g))
             ELSE CapPerFeed(all_sorted_groups, k + 1, source_counts, capped_groups)

\* mutant of AllSortedGroups: the groups are capped in their incoming order
AllUnsortedGroups(gs) == gs

\* all_sorted_groups (lines 496-500): the dated groups newest first, then
\* the undated ones in their incoming order
AllSortedGroups(gs) ==
    LET HasDate(g) == ~g.primary.date.none
        HasNoDate(g) == g.primary.date.none
    IN  SortGroupsNewestFirst(SelectSeq(gs, HasDate))
        \o SelectSeq(gs, HasNoDate)

\* sorted_groups of generate_html (lines 492-516): sort, cap, sort again
generate_html(gs) ==
    SortGroupsNewestFirst(CapPerFeed(AllSortedGroups(gs), 1, <<>>, <<>>))

\* the page is rendered from the groups (line 4573)
GenerateHtml ==
    /\ pc = "cluster_done"
    /\ sorted_groups' = generate_html(article_groups)
    /\ pc' = "export"
    /\ UNCHANGED <<dedupVars, clusterVars, runs, feeds, futures, all_articles,
                   video_articles, twitter_articles, filtered_articles,
                   recent_articles, clock, local_offset, exported,
                   cacheVars, rankerVars>>

\* offset as isoformat prints it: +HH:MM or -HH:MM
IsoOffset(off) ==
    LET a == IF off < 0 THEN -off ELSE off
    IN  (IF off < 0 THEN "-" ELSE "+") \o TwoDigits(a \div 60) \o ":"
        \o TwoDigits(a % 60)

\* datetime.isoformat() (line 468) of a datetime of January 2024 with whole
\* minutes: YYYY-MM-DDTHH:MM:SS, then the offset of an aware datetime
IsoFormat(date) ==
    StrftimeDate(date) \o "T"
    \o TwoDigits((date.wall % MinutesPerDay) \div 60) \o ":"
    \o TwoDigits(date.wall % 60) \o ":00"
    \o (IF date.aware THEN IsoOffset(date.off) ELSE "")

\* JSON null
JsonNull == "null"

\* article.get("category", "News") (line 469)
ArticleCategory(article) ==
    IF "category" \in DOMAIN article THEN article.category ELSE "News"

\* mutant of ExportRecord: has_related tells whether the group has members
ExportRecordByMembers(g) ==
    [title |-> g.primary.title,
     url |-> g.primary.link,
     source |-> g.primary.source,
     date |-> IF g.primary.date.none THEN JsonNull ELSE IsoFormat(g.primary.date),
     category |-> ArticleCategory(g.primary),
     has_related |-> Len(g.all_articles) > 1]

\* the record export_articles_json appends for a group (lines 463-472)
ExportRecord(g) ==
    [title |-> g.primary.title,
     url |-> g.primary.link,
     source |-> g.primary.source,
     date |-> IF g.primary.date.none THEN JsonNull ELSE IsoFormat(g.primary.date),
     category |-> ArticleCategory(g.primary),
     has_related |-> Len(g.related_sources) > 0]

\* export_articles_json(article_groups) (lines 459-475, called at 4574)
export_articles_json(gs) == [k \in 1..Len(gs) |-> ExportRecord(gs[k])]

\* the snapshot is written and main returns (lines 4574-4577)
ExportArticlesJson ==
    /\ pc = "export"
    /\ exported' = [written |-> TRUE, articles |-> export_articles_json(article_groups)]
    /\ pc' = "done"
    /\ UNCHANGED <<dedupVars, clusterVars, runs, feeds, futures, all_articles,
                   video_articles, twitter_articles, filtered_articles,
                   recent_articles, clock, local_offset, sorted_groups,
                   cacheVars, rankerVars>>

(***************************************************************************)
(* The YouTube cache: main(), lines 4467-4503                              *)
(***************************************************************************)

\* the number a two-digit field of an ISO string stands for
TwoDigitValue(field) == CHOOSE n \in 0..99 : TwoDigits(n) = field

\* datetime.fromisoformat (line 4477) of a string that isoformat() made of a
\* datetime of January 2024: YYYY-MM-DDTHH:MM:SS, then +HH:MM or -HH:MM if
\* the datetime had an offset
FromIsoFormat(text) ==
    LET day == TwoDigitValue(SubSeq(text, 9, 10))
        hour == TwoDigitValue(SubSeq(text, 12, 13))
        minute == TwoDigitValue(SubSeq(text, 15, 16))
        has_offset == Len(text) > 19
        magnitude == IF has_offset
                     THEN TwoDigitValue(SubSeq(text, 21, 22)) * 60
                          + TwoDigitValue(SubSeq(text, 24, 25))
                     ELSE 0
    IN  [none |-> FALSE,
         wall |-> (day - 1) * MinutesPerDay + hour * 60 + minute,
         aware |-> has_offset,
         off |-> IF has_offset /\ SubSeq(text, 20, 20) = "-"
                 THEN -magnitude ELSE magnitude]

\* serialize_video (lines 4470-4471): the dict with its date as an ISO string
\* or null
serialize_video(v) ==
    [v EXCEPT !.date = IF v.date.none THEN JsonNull ELSE IsoFormat(v.date)]

\* deserialize_video (lines 4473-4482): a null date stays None, a date
\* string is parsed and, if it names no offset, read as IST
deserialize_video(v) ==
    IF v.date = JsonNull THEN [v EXCEPT !.date = DateNone]
    ELSE LET parsed == FromIsoFormat(v.date)
         IN  [v EXCEPT !.date =
                 IF parsed.aware THEN parsed
                 ELSE [parsed EXCEPT !.aware = TRUE, !.off = IstOffsetMinutes]]

\* the file json.dump writes for a list of videos (lines 4487-4488)
WrittenCache(videos) ==
    JsonArrayFile([k \in 1..Len(videos) |-> serialize_video(videos[k])])

\* mutant of CacheAfterRun: the cache is written on every run
CacheAlwaysWritten(videos, cache) == WrittenCache(videos)

\* the cache file after the step (lines 4484-4491): rewritten if videos were
\* fetched, else left
CacheAfterRun(videos, cache) ==
    IF videos # <<>> THEN WrittenCache(videos) ELSE cache

\* video_articles after the step (lines 4484, 4492-4503): the fetched videos
\* or, if there are none, those of the cache file; nothing if no file exists
VideosAfterRun(videos, cache) ==
    IF videos # <<>> THEN videos
    ELSE IF cache.exists
         THEN [k \in 1..Len(cache.items) |-> deserialize_video(cache.items[k])]
         ELSE <<>>

\* the cache step of a run (lines 4467-4503)
YoutubeCache ==
    /\ pc = "youtube_cache"
    /\ youtube_cache' = CacheAfterRun(video_articles, youtube_cache)
    /\ video_articles' = VideosAfterRun(video_articles, youtube_cache)
    /\ video_log' = Append(video_log, video_articles)
    /\ pc' = "twitter_cutoff"
    /\ UNCHANGED <<dedupVars, clusterVars, runs, fetchVars, twitter_articles,
                   filtered_articles, recent_articles, clock, local_offset,
                   sorted_groups, exported, run_count, rankerVars>>

(***************************************************************************)
(* The quote ranker: wsw_ranker.py.  It reads the files the aggregator and *)
(* the Telegram fetcher wrote, asks each model of WSW_MODELS for clusters  *)
(* and writes wsw_clusters.json.  Line numbers in this section are those   *)
(* of wsw_ranker.py.                                                       *)
(***************************************************************************)

\* dict.get(key, default) on the members of a JSON object
DictGet(members, key, default) ==
    IF \E k \in 1..Len(members) : members[k].key = key
    THEN members[CHOOSE k \in 1..Len(members) : members[k].key = key].value
    ELSE default

\* d[key] = value on the members of a JSON object: the value of an existing
\* key is replaced where it stands, a new key is added at the end
DictSet(members, key, value) ==
    IF \E k \in 1..Len(members) : members[k].key = key
    THEN [k \in 1..Len(members) |->
             IF members[k].key = key THEN Member(key, value) ELSE members[k]]
    ELSE Append(members, Member(key, value))

\* timedelta(days=7) (line 93)
WindowDays == 7

\* days from 0001-01-01, the day of datetime.min, to 2024-01-01
DaysSinceDatetimeMin == 738885

\* datetime.min.replace(tzinfo=IST_TZ) (lines 80, 87) as an instant
DatetimeMin == -(DaysSinceDatetimeMin * MinutesPerDay) - IstOffsetMinutes

\* parse_dt (lines 77-87) of the "date" of an item, as an instant: no date
\* gives datetime.min, a date without an offset is read as IST
parse_dt(date_str) ==
    IF date_str = JsonNull \/ date_str = "" THEN DatetimeMin
    ELSE LET dt == FromIsoFormat(date_str)
         IN  dt.wall - (IF dt.aware THEN dt.off ELSE IstOffsetMinutes)

\* the dict load_sources_7d appends for an item (lines 107-113, 131-137,
\* 155-161)
SourceItem(source_type, title, speaker, url, date) ==
    [source_type |-> source_type, title |-> title, speaker |-> speaker,
     url |-> url, date |-> date]

\* the items of articles.json (lines 97-118): nothing if the file is not
\* there, else every article dated at or after the cutoff
NewsAndTwitterItems(file, cutoff) ==
    IF ~file.written THEN <<>>
    ELSE LET kept == SelectSeq(file.articles,
                               LAMBDA a : parse_dt(a.date) >= cutoff)
         IN  [k \in 1..Len(kept) |->
                 SourceItem(IF kept[k].category = "Twitter"
                            THEN "twitter" ELSE "news",
                            kept[k].title, kept[k].source, kept[k].url,
                            kept[k].date)]

\* text[:100]
FirstHundred(text) ==
    SubSeq(text, 1, IF Len(text) < 100 THEN Len(text) ELSE 100)

\* the items of telegram_reports.json (lines 120-142): nothing if the file
\* is not there, else every report with text dated at or after the cutoff
TelegramItems(file, cutoff) ==
    IF ~file.exists \/ file.type # "object" THEN <<>>
    ELSE LET reports == DictGet(file.items, "reports", JsonArray(<<>>))
             kept == SelectSeq(reports.elements,
                               LAMBDA r : /\ StrStrip(r.text) # ""
                                          /\ parse_dt(r.date) >= cutoff)
         IN  [k \in 1..Len(kept) |->
                 SourceItem("telegram",
                            StrReplace(FirstHundred(StrStrip(kept[k].text)),
                                       "\n", " "),
                            kept[k].channel, kept[k].url, kept[k].date)]

\* the items of one list of videos (lines 152-162)
VideoItems(videos, cutoff) ==
    LET kept == SelectSeq(videos, LAMBDA v : parse_dt(v.date) >= cutoff)
    IN  [k \in 1..Len(kept) |->
            SourceItem("youtube", kept[k].title, kept[k].source,
                       kept[k].link, kept[k].date)]

RECURSIVE VideoItemsFrom(_, _, _)
\* the loop over yt_cache.items() (lines 149-162) from member k on: a value
\* that is no list is skipped
VideoItemsFrom(members, k, cutoff) ==
    IF k > Len(members) THEN <<>>
    ELSE (IF members[k].value.type = "array"
          THEN VideoItems(members[k].value.elements, cutoff)
          ELSE <<>>)
         \o VideoItemsFrom(members, k + 1, cutoff)

\* the items of youtube_cache.json (lines 144-166): nothing if the file is
\* not there; a file that holds a JSON array has no items() and the
\* AttributeError of line 149 is caught at line 165, before any item is
\* appended
YoutubeItems(file, cutoff) ==
    IF ~file.exists THEN <<>>
    ELSE IF file.type # "object" THEN <<>>
    ELSE VideoItemsFrom(file.items, 1, cutoff)

\* load_sources_7d (lines 90-174) at the reading now of the clock; total is
\* the length of the list
load_sources_7d(articles_file, tg_file, yt_file, now) ==
    LET cutoff == now - WindowDays * MinutesPerDay
    IN  NewsAndTwitterItems(articles_file, cutoff)
        \o TelegramItems(tg_file, cutoff)
        \o YoutubeItems(yt_file, cutoff)

\* WSW_MODELS (lines 24-35) in the order of the dict
WSW_MODELS ==
    <<[key |-> "gemini-2-5-flash", id |-> "gemini-2.0-flash",
       name |-> "Gemini 2.0 Flash", provider |-> "gemini"],
      [key |-> "auto", id |-> "meta-llama/llama-3.3-70b-instruct:free",
       name |-> "Auto (Best Free)", provider |-> "openrouter"]>>

\* range(2) (line 321)
AttemptsPerModel == 2

\* clusters[:8] (lines 340, 342, 347)
ClusterLimit == 8

\* call_gemini or call_openrouter raised: no key, a network error, a reply
\* without the expected fields, or text parse_json_response cannot load
CallRaised == [raised |-> TRUE, value |-> JsonNone]

\* the call returned what parse_json_response loaded
CallReturned(value) == [raised |-> FALSE, value |-> value]

\* bool(x) of a parsed JSON value
Truthy(x) ==
    CASE x.type = "null" -> FALSE
      [] x.type = "number" -> x.number # 0
      [] x.type = "string" -> x.text # ""
      [] x.type = "array" -> x.elements # <<>>
      [] x.type = "object" -> x.members # <<>>

\* whether len(x) is defined
HasLen(x) == x.type \in {"array", "object", "string"}

\* lines 328-329: a dict stands for its "clusters", else its "items", else []
Unwrapped(x) ==
    IF x.type = "object"
    THEN DictGet(x.members, "clusters",
                 DictGet(x.members, "items", JsonArray(<<>>)))
    ELSE x

\* clusters after an attempt (lines 324-329): what it was if the call raised
ClustersAfterCall(before, response) ==
    IF response.raised THEN before ELSE Unwrapped(response.value)

\* whether the attempt reaches the break of line 332: the call returned, the
\* clusters are truthy and the print of line 331 can take their len
AttemptBreaks(response) ==
    /\ ~response.raised
    /\ Truthy(Unwrapped(response.value))
    /\ HasLen(Unwrapped(response.value))

\* x[:8] of a list
FirstEight(elements) ==
    SubSeq(elements, 1,
           IF Len(elements) < ClusterLimit THEN Len(elements) ELSE ClusterLimit)

\* whether lines 340-341 run through: clusters is a list whose first eight
\* elements are dicts.  Anything else raises (a number or a dict cannot be
\* sliced, a string or a list takes no item "rank"), outside the try of
\* line 322
RankingRaises(x) ==
    \/ x.type # "array"
    \/ \E k \in 1..Len(FirstEight(x.elements)) : x.elements[k].type # "object"

\* clusters[:8] after lines 340-341: each dict with its "rank" set to its
\* position
Ranked(x) ==
    [k \in 1..Len(FirstEight(x.elements)) |->
        JsonObject(DictSet(x.elements[k].members, "rank", JsonNumber(k)))]

\* the entry of results["providers"] for a model (lines 345-353)
ProviderEntry(model, x) ==
    IF Truthy(x)
    THEN [key |-> model.key, name |-> model.name, status |-> "ok",
          count |-> Len(FirstEight(x.elements)), clusters |-> Ranked(x)]
    ELSE [key |-> model.key, name |-> model.name, status |-> "error",
          error |-> "No clusters returned after retries"]

\* results before the first call (lines 310-314)
NewResults(now, total) ==
    [generated_at |-> IsoFormat(DateTime(now + IstOffsetMinutes, IstOffsetMinutes)),
     item_count |-> total, providers |-> <<>>]

\* a file holding what json.dump wrote for results (line 365)
ResultsFile(r) == [exists |-> TRUE, type |-> "object", items |-> <<r>>]

\* readings of datetime.now(IST_TZ) in the ranker, as instants: 2024-01-17
\* 09:00 +05:30, seven days after NaiveX read as IST, and 2024-01-20
RankerClockReadings ==
    {16 * MinutesPerDay + 9 * 60 - IstOffsetMinutes,
     19 * MinutesPerDay + 9 * 60 - IstOffsetMinutes}

\* main() starts (lines 296-314): the sources are loaded; with no item it
\* returns and the process ends with status 0
WswStart ==
    /\ wsw_pc = "start"
    /\ \E now \in RankerClockReadings :
          LET loaded == load_sources_7d(exported, telegram_reports,
                                        youtube_cache, now)
          IN  /\ now >= clock
              /\ clock' = now
              /\ wsw_items' = loaded
              /\ IF loaded = <<>>
                 THEN /\ wsw_pc' = "done"
                      /\ exit_status' = "0"
                      /\ UNCHANGED results
                 ELSE /\ wsw_pc' = "call"
                      /\ results' = NewResults(now, Len(loaded))
                      /\ UNCHANGED exit_status
    /\ wsw_key' = 1
    /\ attempt' = 0
    /\ clusters' = JsonNone
    /\ UNCHANGED <<pc, dedupVars, clusterVars, runs, fetchVars, video_articles,
                   twitter_articles, filtered_articles, recent_articles,
                   local_offset, sorted_groups, exported, cacheVars,
                   telegram_reports, wsw_calls, tmp_file, wsw_clusters_json>>

\* one attempt of the loop of line 321 for the model wsw_key, with the
\* response its call gets (lines 322-338)
WswCall(response) ==
    /\ wsw_pc = "call"
    /\ wsw_calls' = Append(wsw_calls, [key |-> WSW_MODELS[wsw_key].key,
                                       attempt |-> attempt,
                                       response |-> response])
    /\ clusters' = ClustersAfterCall(clusters, response)
    /\ attempt' = attempt + 1
    /\ wsw_pc' = IF AttemptBreaks(response) \/ attempt + 1 = AttemptsPerModel
                 THEN "record" ELSE "call"
    /\ UNCHANGED <<aggregatorVars,
                   telegram_reports, wsw_items, wsw_key, results, tmp_file,
                   wsw_clusters_json, exit_status>>

\* the clusters of the model are ranked and recorded (lines 339-355); an
\* exception of lines 340-341 leaves main and the process ends with status 1
\* (lines 383-386)
WswRecord ==
    /\ wsw_pc = "record"
    /\ IF Truthy(clusters) /\ RankingRaises(clusters)
       THEN /\ wsw_pc' = "done"
            /\ exit_status' = "1"
            /\ UNCHANGED <<results, wsw_key, attempt, clusters>>
       ELSE /\ results' = [results EXCEPT !.providers =
                              Append(@, ProviderEntry(WSW_MODELS[wsw_key], clusters))]
            /\ wsw_key' = wsw_key + 1
            /\ attempt' = 0
            /\ clusters' = JsonNone
            /\ wsw_pc' = IF wsw_key = Len(WSW_MODELS) THEN "check" ELSE "call"
            /\ UNCHANGED exit_status
    /\ UNCHANGED <<aggregatorVars,
                   telegram_reports, wsw_items, wsw_calls, tmp_file,
                   wsw_clusters_json>>

\* lines 357-359: with no provider "ok" the process exits with status 1
WswCheck ==
    /\ wsw_pc = "check"
    /\ IF \E k \in 1..Len(results.providers) : results.providers[k].status = "ok"
       THEN /\ wsw_pc' = "write"
            /\ UNCHANGED exit_status
       ELSE /\ wsw_pc' = "done"
            /\ exit_status' = "1"
    /\ UNCHANGED <<aggregatorVars,
                   telegram_reports, wsw_items, wsw_key, attempt, clusters,
                   results, wsw_calls, tmp_file, wsw_clusters_json>>

\* the results are written to a temporary file of the same directory
\* (lines 361-365)
WswWriteTemp ==
    /\ wsw_pc = "write"
    /\ tmp_file' = ResultsFile(results)
    /\ wsw_pc' = "replace"
    /\ UNCHANGED <<aggregatorVars,
                   telegram_reports, wsw_items, wsw_key, attempt, clusters,
                   results, wsw_calls, wsw_clusters_json, exit_status>>

\* os.replace(tmp_path, output_path) (line 366), and main returns
WswReplace ==
    /\ wsw_pc = "replace"
    /\ wsw_clusters_json' = tmp_file
    /\ tmp_file' = NoFile
    /\ wsw_pc' = "done"
    /\ exit_status' = "0"
    /\ UNCHANGED <<aggregatorVars,
                   telegram_reports, wsw_items, wsw_key, attempt, clusters,
                   results, wsw_calls>>

(***************************************************************************)
(* De-duplication under test: the loop runs on a drawn list and then again *)
(* on its own output.                                                      *)
(***************************************************************************)

\* longest input list drawn
MaxArticles == 3

\* passes of the de-duplication loop: the first, then on its own output
MaxPasses == 2

\* spellings of one URL: case, surrounding whitespace, trailing slash, scheme
UrlVariants ==
    {ws1 \o scheme \o rest \o slash \o ws2 :
        ws1 \in {"", " "}, scheme \in {"https://", "http://", "HTTPS://", "Http://"},
        rest \in {"x.com/y", "X.com/Y", "X.COM/y"}, slash \in {"", "/"},
        ws2 \in {"", " ", "\t"}}

\* the spellings of UrlVariants that are drawn as input
DrawnVariants ==
    {"https://x.com/y", "HTTPS://X.com/Y/", "http://x.com/y",
     " https://x.com/y\t", "Http://X.COM/y/ "}

\* links drawn as input: the spellings above, blank links, a query string,
\* another path, and two links with a URL inside their query string
Links ==
    DrawnVariants \cup
    {"", "  ", "https://x.com/y?u=1", "https://x.com/z",
     "https://x.com/r?u=http://b", "https://x.com/r?u=https://b"}

\* the article drawn at position i: its title tells the positions apart
DrawnArticle(i, link) == Article("T" \o ToString(i), link, DateNone, "A")

InitDedup ==
    /\ pc = "dedup_init"
    /\ \E n \in 0..MaxArticles : \E f \in [1..n -> Links] :
          regular_articles = [i \in 1..n |-> DrawnArticle(i, f[i])]
    /\ seen_urls = {}
    /\ unique_articles = <<>>
    /\ di = 1
    /\ runs = <<>>
    /\ ClusterIdle
    /\ MainIdle

\* the de-duplication loop is entered again, on its own output
DedupAgain ==
    /\ pc = "dedup_done"
    /\ Len(runs) < MaxPasses
    /\ regular_articles' = unique_articles
    /\ pc' = "dedup_init"
    /\ UNCHANGED <<seen_urls, unique_articles, di, runs, clusterVars, mainVars>>

NextDedup == DedupStart \/ DedupStep \/ DedupDone \/ DedupAgain

SpecDedup == InitDedup /\ [][NextDedup]_vars

(***************************************************************************)
(* Clustering under test: group_similar_articles is called on a drawn list *)
(* and then again on the same list.                                        *)
(***************************************************************************)

\* calls of group_similar_articles on the drawn list
MaxCalls == 2

\* <<source, title, date>> of the articles drawn: two sources, two similar
\* titles and two datetimes of one bucket in every combination, then an
\* unrelated title, undated articles, a datetime of another bucket, and the
\* two titles that the quick filter tells apart
DrawnKinds ==
    ({"A", "B"} \X {TitleA, TitleB} \X {DateX, DateY})
    \cup {<<"B", TitleC, DateX>>, <<"A", TitleA, DateNone>>,
          <<"B", TitleB, DateNone>>, <<"B", TitleB, DateZ>>,
          <<"A", TitleD, DateX>>, <<"B", TitleE, DateX>>}

\* the article drawn at position i: links are distinct, as they are after
\* the de-duplication loop
ClusterArticle(i, kind) ==
    Article(kind[2], "https://" \o kind[1] \o ".com/" \o ToString(i), kind[3], kind[1])

InitCluster ==
    /\ pc = "cluster_call"
    /\ \E n \in 0..MaxArticles : \E f \in [1..n -> DrawnKinds] :
          articles = [i \in 1..n |-> ClusterArticle(i, f[i])]
    /\ articles_by_date = <<>>
    /\ signatures = <<>>
    /\ groups = <<>>
    /\ used = {}
    /\ bkt = 1
    /\ idx = 1
    /\ jpos = 1
    /\ group = NoGroup
    /\ article_groups = <<>>
    /\ regular_articles = <<>>
    /\ seen_urls = {}
    /\ unique_articles = <<>>
    /\ di = 1
    /\ runs = <<>>
    /\ MainIdle

\* group_similar_articles is called again on the same list
ClusterAgain ==
    /\ pc = "cluster_done"
    /\ Len(runs) < MaxCalls
    /\ pc' = "cluster_call"
    /\ UNCHANGED <<clusterVars, dedupVars, runs, mainVars>>

NextCluster ==
    \/ ClusterCall
    \/ ClusterSkipUsed
    \/ ClusterOpenGroup
    \/ ClusterCompare
    \/ ClusterEmit
    \/ ClusterNextBucket
    \/ ClusterReturn
    \/ ClusterAgain

SpecCluster == InitCluster /\ [][NextCluster]_vars

\* the same with the progress of a sequential program: main() is one thread
\* from the clustering call on, and it takes its next step whenever it has one
SpecClusterFair == SpecCluster /\ WF_vars(NextCluster)

(***************************************************************************)
(* Clustering of chained, equal and empty titles: group_similar_articles   *)
(* on lists drawn from titles that are similar in a chain, that have one   *)
(* normalized title, or an empty one                                       *)
(***************************************************************************)

\* <<source, title, date>> of the articles drawn: the chain of three titles
\* in one bucket, the second spelling of its first title in that bucket and
\* in another one, and the title that is empty after normalization
ChainKinds ==
    {<<"A", TitleX, DateX>>, <<"B", TitleY, DateX>>, <<"A", TitleZ, DateX>>,
     <<"B", TitleXBreaking, DateX>>, <<"A", TitleXBreaking, DateZ>>,
     <<"A", TitleBlank, DateX>>, <<"B", TitleA, DateX>>}

InitChain ==
    /\ pc = "cluster_call"
    /\ \E n \in 0..MaxArticles : \E f \in [1..n -> ChainKinds] :
          articles = [i \in 1..n |-> ClusterArticle(i, f[i])]
    /\ articles_by_date = <<>>
    /\ signatures = <<>>
    /\ groups = <<>>
    /\ used = {}
    /\ bkt = 1
    /\ idx = 1
    /\ jpos = 1
    /\ group = NoGroup
    /\ article_groups = <<>>
    /\ regular_articles = <<>>
    /\ seen_urls = {}
    /\ unique_articles = <<>>
    /\ di = 1
    /\ runs = <<>>
    /\ MainIdle

SpecChain == InitChain /\ [][NextCluster]_vars

(***************************************************************************)
(* The run under test: main() on drawn feeds                               *)
(***************************************************************************)

\* longest list of feeds drawn
MaxFeeds == 2

Init ==
    /\ pc = "start"
    /\ \E n \in 0..MaxFeeds : \E f \in [1..n -> DrawnFeeds] :
          /\ \A i, j \in 1..n : f[i].name = f[j].name => i = j
          /\ feeds = f
    /\ local_offset \in LocalOffsets
    /\ futures = <<>>
    /\ all_articles = <<>>
    /\ video_articles = <<>>
    /\ twitter_articles = <<>>
    /\ filtered_articles = <<>>
    /\ recent_articles = <<>>
    /\ clock = 0
    /\ sorted_groups = <<>>
    /\ exported = [written |-> FALSE, articles |-> <<>>]
    /\ youtube_cache = NoFile
    /\ video_log = <<>>
    /\ run_count = 1
    /\ RankerIdle
    /\ regular_articles = <<>>
    /\ seen_urls = {}
    /\ unique_articles = <<>>
    /\ di = 1
    /\ runs = <<>>
    /\ ClusterIdle

Next ==
    \/ LoadFeeds
    \/ Submit
    \/ \E i \in 1..Len(feeds) : WorkerStart(i)
    \/ \E i \in 1..Len(feeds) : WorkerFinish(i)
    \/ \E i \in 1..Len(feeds) : Collect(i)
    \/ Split
    \/ YoutubeCache
    \/ TwitterCutoff
    \/ DedupStart
    \/ DedupStep
    \/ DedupDone
    \/ ContentFilter
    \/ AgeGate
    \/ CallGroupSimilarArticles
    \/ ClusterCall
    \/ ClusterSkipUsed
    \/ ClusterOpenGroup
    \/ ClusterCompare
    \/ ClusterEmit
    \/ ClusterNextBucket
    \/ ClusterReturn
    \/ GenerateHtml
    \/ ExportArticlesJson

Spec == Init /\ [][Next]_vars

(***************************************************************************)
(* Successive runs under test: main() is run again and again on drawn      *)
(* feeds; the files it wrote stay, its memory does not                     *)
(***************************************************************************)

\* most runs of main() in a row
MaxRuns == 3

\* the feeds of these runs: a news feed, and a video feed that returns two
\* videos (one dated without a time zone), another video, or no response
RunFeeds ==
    {FeedA(Ok(<<Item(TitleA, "https://A.com/1", DateP),
                Item(TitleD, "https://A.com/5", DateP),
                Item(TitleD, "https://A.com/6", DateP)>>)),
     FeedOf("V", "Videos", Ok(<<Item(TitleA, "https://V.com/watch?v=1", DateP),
                                Item(TitleB, "https://V.com/watch?v=2", NaiveX)>>)),
     FeedOf("V", "Videos", Ok(<<Item(TitleC, "https://V.com/watch?v=3", DateNone)>>)),
     FeedOf("V", "Videos", NoResponse)}

\* the lists of feeds a run can find in feeds.json
RunFeedLists ==
    UNION {{f \in [1..n -> RunFeeds] :
               \A i, j \in 1..n : f[i].name = f[j].name => i = j} :
           n \in 0..MaxFeeds}

InitRuns ==
    /\ pc = "start"
    /\ feeds \in RunFeedLists
    /\ local_offset \in LocalOffsets
    /\ futures = <<>>
    /\ all_articles = <<>>
    /\ video_articles = <<>>
    /\ twitter_articles = <<>>
    /\ filtered_articles = <<>>
    /\ recent_articles = <<>>
    /\ clock = 0
    /\ sorted_groups = <<>>
    /\ exported = [written |-> FALSE, articles |-> <<>>]
    /\ youtube_cache = NoFile
    /\ video_log = <<>>
    /\ run_count = 1
    /\ RankerIdle
    /\ regular_articles = <<>>
    /\ seen_urls = {}
    /\ unique_articles = <<>>
    /\ di = 1
    /\ runs = <<>>
    /\ ClusterIdle

\* main() has returned and the program is started again: a new process,
\* with the files and the clock where the last one left them
RunAgain ==
    /\ pc = "done"
    /\ run_count < MaxRuns
    /\ run_count' = run_count + 1
    /\ pc' = "start"
    /\ feeds' \in RunFeedLists
    /\ futures' = <<>>
    /\ all_articles' = <<>>
    /\ video_articles' = <<>>
    /\ twitter_articles' = <<>>
    /\ filtered_articles' = <<>>
    /\ recent_articles' = <<>>
    /\ sorted_groups' = <<>>
    /\ regular_articles' = <<>>
    /\ seen_urls' = {}
    /\ unique_articles' = <<>>
    /\ di' = 1
    /\ runs' = <<>>
    /\ articles' = <<>>
    /\ articles_by_date' = <<>>
    /\ signatures' = <<>>
    /\ groups' = <<>>
    /\ used' = {}
    /\ bkt' = 1
    /\ idx' = 1
    /\ jpos' = 1
    /\ group' = NoGroup
    /\ article_groups' = <<>>
    /\ UNCHANGED <<clock, local_offset, exported, youtube_cache, video_log,
                   rankerVars>>

NextRuns == Next \/ RunAgain

SpecRuns == InitRuns /\ [][NextRuns]_vars

(***************************************************************************)
(* The presentation under test: generate_html and export_articles_json on  *)
(* drawn lists of groups with about MAX_PER_FEED groups of one source      *)
(***************************************************************************)

\* most groups of one source drawn beyond MAX_PER_FEED
MaxOverCap == 2

\* the datetime of story i: ten minutes after that of story i - 1 on the
\* wall clock of 2024-01-12, with the offset +05:30 for even i and +00:00
\* for odd i
PresentDate(i) ==
    DateTime(11 * MinutesPerDay + 10 * i, IF i % 2 = 0 THEN 330 ELSE 0)

\* a group with story i of a source as its only article
PresentGroup(source, i, date) ==
    LET primary == Article("Story " \o ToString(i),
                           "https://" \o source \o ".com/" \o ToString(i),
                           date, source)
    IN  [primary |-> primary, related_sources |-> <<>>,
         all_articles |-> <<primary>>]

\* the story at incoming position k of n, by the order the list comes in
StoryAt(order, n, k) ==
    CASE order = "rising" -> k
      [] order = "falling" -> n + 1 - k
      [] order = "mixed" -> (7 * k) % (n + 1)

\* n groups of source A in the given order, the first u of them undated,
\* followed by b groups of source B: the newest story, then an undated one
PresentInput(n, order, u, b) ==
    [k \in 1..n |->
        PresentGroup("A", StoryAt(order, n, k),
                     IF k <= u THEN DateNone
                     ELSE PresentDate(StoryAt(order, n, k)))]
    \o SubSeq(<<PresentGroup("B", 1, PresentDate(100)),
                PresentGroup("B", 2, DateNone)>>, 1, b)

InitPresent ==
    /\ pc = "cluster_done"
    /\ \E n \in (MAX_PER_FEED - 1)..(MAX_PER_FEED + MaxOverCap) :
       \E order \in {"rising", "falling", "mixed"} :
       \E u \in 0..2 : \E b \in 0..2 :
          article_groups = PresentInput(n, order, u, b)
    /\ articles = <<>>
    /\ articles_by_date = <<>>
    /\ signatures = <<>>
    /\ groups = <<>>
    /\ used = {}
    /\ bkt = 1
    /\ idx = 1
    /\ jpos = 1
    /\ group = NoGroup
    /\ regular_articles = <<>>
    /\ seen_urls = {}
    /\ unique_articles = <<>>
    /\ di = 1
    /\ runs = <<>>
    /\ feeds = <<>>
    /\ futures = <<>>
    /\ all_articles = <<>>
    /\ video_articles = <<>>
    /\ twitter_articles = <<>>
    /\ filtered_articles = <<>>
    /\ recent_articles = <<>>
    /\ clock = 0
    /\ local_offset \in LocalOffsets
    /\ sorted_groups = <<>>
    /\ exported = [written |-> FALSE, articles |-> <<>>]
    /\ youtube_cache = NoFile
    /\ video_log = <<>>
    /\ run_count = 1
    /\ RankerIdle

NextPresent == GenerateHtml \/ ExportArticlesJson

SpecPresent == InitPresent /\ [][NextPresent]_vars

(***************************************************************************)
(* The ranker under test: wsw_ranker's main() on drawn files, clock        *)
(* readings and model responses                                            *)
(***************************************************************************)

\* the feed the drawn videos come from
VideoFeed == FeedOf("V", "Videos", NoResponse)

\* the videos of a run of the aggregator: dated 2024-01-12 09:00 +05:30,
\* 2024-01-10 09:00 without a time zone, undated, and 2024-01-03
DrawnVideos ==
    <<FeedArticle(VideoFeed, Item(TitleA, "https://V.com/watch?v=1", DateP)),
      FeedArticle(VideoFeed, Item(TitleB, "https://V.com/watch?v=2", NaiveX)),
      FeedArticle(VideoFeed, Item(TitleC, "https://V.com/watch?v=3", DateNone)),
      FeedArticle(VideoFeed, Item(TitleD, "https://V.com/watch?v=4", DateOld))>>

\* a cache in the layout load_sources_7d iterates: an object of feed ids,
\* each with its list of videos, here beside a member that is no list
CacheByFeed ==
    JsonObjectFile(<<Member("note", JsonString("by feed")),
                     Member("V", JsonArray([k \in 1..Len(DrawnVideos) |->
                                              serialize_video(DrawnVideos[k])]))>>)

\* the caches the ranker can find, each with the videos main() wrote to it
DrawnCaches ==
    {[file |-> NoFile, written |-> <<>>],
     [file |-> WrittenCache(DrawnVideos), written |-> <<DrawnVideos>>],
     [file |-> WrittenCache(SubSeq(DrawnVideos, 3, 4)),
      written |-> <<SubSeq(DrawnVideos, 3, 4)>>],
     [file |-> CacheByFeed, written |-> <<>>]}

\* articles.json as export_articles_json writes it for a recent, an old and
\* an undated story, or not written
DrawnSnapshots ==
    {[written |-> FALSE, articles |-> <<>>],
     [written |-> TRUE,
      articles |-> export_articles_json(<<PresentGroup("A", 1, DateP),
                                          PresentGroup("B", 2, DateOld),
                                          PresentGroup("A", 3, DateNone)>>)]}

\* a report of telegram_reports.json (telegram_fetcher.py lines 462-467)
Report(text, date, url, channel) ==
    [text |-> text, date |-> date, url |-> url, channel |-> channel]

\* telegram_reports.json with a recent report of two lines, a report
\* without text and an old report, or no file
DrawnReports ==
    {NoFile,
     JsonObjectFile(
         <<Member("generated_at", JsonString(IsoFormat(DateP))),
           Member("reports",
                  JsonArray(<<Report(" Rates\nheld ", IsoFormat(DateP),
                                     "https://t.me/c/1", "C"),
                              Report(" ", IsoFormat(DateP),
                                     "https://t.me/c/2", "C"),
                              Report("Old note", IsoFormat(DateOld),
                                     "https://t.me/c/3", "C")>>))>>)}

\* a cluster as a model returns it, with the rank the model gave it
Cluster(title, rank) ==
    JsonObject(<<Member("rank", JsonNumber(rank)),
                 Member("cluster_title", JsonString(title))>>)

\* a cluster without "rank"
UnrankedCluster(title) ==
    JsonObject(<<Member("cluster_title", JsonString(title))>>)

\* nine clusters ranked in reverse
NineClusters ==
    JsonArray([k \in 1..(ClusterLimit + 1) |->
                  Cluster("Debate " \o ToString(k), ClusterLimit + 2 - k)])

\* what a call can come to: an exception, or the JSON value that
\* parse_json_response loaded.  It cuts a text that does not start with "["
\* down to its outermost brackets (lines 226-231), so the dicts it returns
\* hold no list
ModelResponses ==
    {CallRaised,
     CallReturned(JsonArray(<<>>)),
     CallReturned(JsonArray(<<UnrankedCluster("Rates")>>)),
     CallReturned(NineClusters),
     CallReturned(JsonObject(
         <<Member("clusters",
                  JsonObject(<<Member("first", Cluster("Oil", 1))>>))>>)),
     CallReturned(JsonObject(<<Member("items", JsonString(""))>>)),
     CallReturned(JsonObject(<<Member("note", JsonString("nothing notable"))>>)),
     CallReturned(JsonArray(<<JsonString("RBI: rates stay")>>)),
     CallReturned(JsonNumber(8))}

\* wsw_clusters.json of an earlier run
PreviousResults ==
    ResultsFile([generated_at |-> IsoFormat(DateOld), item_count |-> 1,
                 providers |-> <<ProviderEntry(WSW_MODELS[1],
                                     JsonArray(<<UnrankedCluster("Earlier")>>))>>])

InitRanker ==
    /\ pc = "done"
    /\ regular_articles = <<>>
    /\ seen_urls = {}
    /\ unique_articles = <<>>
    /\ di = 1
    /\ ClusterIdle
    /\ runs = <<>>
    /\ feeds = <<>>
    /\ futures = <<>>
    /\ all_articles = <<>>
    /\ video_articles = <<>>
    /\ twitter_articles = <<>>
    /\ filtered_articles = <<>>
    /\ recent_articles = <<>>
    /\ clock = 0
    /\ local_offset = 0
    /\ sorted_groups = <<>>
    /\ exported \in DrawnSnapshots
    /\ \E cache \in DrawnCaches :
          /\ youtube_cache = cache.file
          /\ video_log = cache.written
    /\ run_count = 1
    /\ telegram_reports \in DrawnReports
    /\ wsw_pc = "start"
    /\ wsw_items = <<>>
    /\ wsw_key = 1
    /\ attempt = 0
    /\ clusters = JsonNone
    /\ results = NoResults
    /\ wsw_calls = <<>>
    /\ tmp_file = NoFile
    /\ wsw_clusters_json \in {NoFile, PreviousResults}
    /\ exit_status = "none"

NextRanker ==
    \/ WswStart
    \/ \E response \in ModelResponses : WswCall(response)
    \/ WswRecord
    \/ WswCheck
    \/ WswWriteTemp
    \/ WswReplace

SpecRanker == InitRanker /\ [][NextRanker]_vars

(***************************************************************************)
(* Properties of exact URL de-duplication (checked under SpecDedup)        *)
(***************************************************************************)

\* the elements of seq at the positions K, in increasing position
SubSeqAt(seq, K) ==
    [r \in 1..Cardinality(K) |->
        seq[CHOOSE i \in K : Cardinality({j \in K : j <= i}) = r]]

\* a link that is empty or made of whitespace only
OnlyWhitespace(link) == \A k \in 1..Len(link) : Ch(link, k) \in WhitespaceChars

\* positions of arts holding the first usable link of each key
FirstPositions(arts, Key(_)) ==
    {i \in 1..Len(arts) :
        /\ ~OnlyWhitespace(arts[i].link)
        /\ \A j \in 1..(i - 1) :
              OnlyWhitespace(arts[j].link) \/ Key(arts[j].link) # Key(arts[i].link)}

\* C4: when the de-duplication loop ends, its output is, in input order,
\* exactly the first article of each distinct normalized link among the
\* articles whose link is neither empty nor whitespace-only, each such
\* article unchanged in every field.
C4_DedupFirstOccurrence ==
    pc = "dedup_done" =>
        unique_articles =
            SubSeqAt(regular_articles, FirstPositions(regular_articles, NormalizeUrl))

\* C4 witness: a finished first pass that dropped a blank link and a later
\* duplicate and kept one article
C4_Witness ==
    /\ pc = "dedup_done"
    /\ Len(runs) = 1
    /\ Len(regular_articles) = 3
    /\ Len(unique_articles) = 1
    /\ \E i \in 1..3 : OnlyWhitespace(regular_articles[i].link)
    /\ \E i, j \in 1..3 :
          /\ i < j
          /\ ~OnlyWhitespace(regular_articles[i].link)
          /\ regular_articles[i].link # regular_articles[j].link
          /\ NormalizeUrl(regular_articles[i].link) = NormalizeUrl(regular_articles[j].link)

\* C5: a pass of the de-duplication loop over the output of the previous
\* pass returns that same sequence.
C5_DedupIdempotent ==
    \A k \in 2..Len(runs) :
        /\ runs[k].input = runs[k - 1].output
        /\ runs[k].output = runs[k].input

\* C5 witness: the second pass is finished, the first pass removed something
\* and left something
C5_Witness ==
    /\ Len(runs) = 2
    /\ runs[1].output # runs[1].input
    /\ Len(runs[2].output) = 2

\* C6: two articles whose links are spellings of one URL that differ only in
\* letter case, surrounding whitespace, a trailing slash or the http/https
\* scheme have one key, and the loop keeps only the first of them.
C6_VariantsCollapse ==
    pc = "dedup_done" =>
        \A i, j \in 1..Len(regular_articles) :
            (/\ i < j
             /\ regular_articles[i].link \in UrlVariants
             /\ regular_articles[j].link \in UrlVariants)
            => /\ NormalizeUrl(regular_articles[i].link)
                     = NormalizeUrl(regular_articles[j].link)
               /\ \A k \in 1..Len(unique_articles) :
                     unique_articles[k] # regular_articles[j]
               /\ Cardinality({k \in 1..Len(unique_articles) :
                                  unique_articles[k].link \in UrlVariants}) = 1
               /\ \E k \in 1..Len(unique_articles) :
                     /\ unique_articles[k].link \in UrlVariants
                     /\ \E f \in 1..Len(regular_articles) :
                           /\ unique_articles[k] = regular_articles[f]
                           /\ \A e \in 1..(f - 1) :
                                 regular_articles[e].link \notin UrlVariants

\* C6 witness: "HTTPS://X.com/Y/" and then "https://x.com/y" were read, and
\* the loop kept one article
C6_Witness ==
    /\ pc = "dedup_done"
    /\ Len(runs) = 1
    /\ Len(regular_articles) = 2
    /\ regular_articles[1].link = "HTTPS://X.com/Y/"
    /\ regular_articles[2].link = "https://x.com/y"
    /\ unique_articles = <<regular_articles[1]>>

\* the rule as the text states it: only a leading "http://" is replaced
LeadingSchemeOnly(link) ==
    LET s == RStrip(StrStrip(StrLower(link)), {"/"})
    IN  IF StartsWith(s, "http://")
        THEN "https://" \o SubSeq(s, Len("http://") + 1, Len(s))
        ELSE s

\* C7 (as stated): the key is the lowercased, trimmed, slash-stripped link with
\* only a leading "http://" replaced, so links that differ anywhere after the
\* scheme are kept as distinct articles.
C7_KeyLeadingSchemeOnly ==
    pc = "dedup_done" =>
        unique_articles =
            SubSeqAt(regular_articles, FirstPositions(regular_articles, LeadingSchemeOnly))

(***************************************************************************)
(* Properties of headline clustering (checked under SpecCluster)           *)
(***************************************************************************)

\* the <<group, position>> pairs at which article a is a member in gs
MemberSlots(gs, a) ==
    {s \in UNION {{<<g, k>> : k \in 1..Len(gs[g].all_articles)} : g \in 1..Len(gs)} :
        gs[s[1]].all_articles[s[2]] = a}

\* C1: when group_similar_articles returns, every input article is a member
\* of exactly one group, once, and every member of a group is an input
\* article: the member lists partition the input.
C1_Partition ==
    pc = "cluster_done" =>
        /\ \A i \in 1..Len(articles) :
              Cardinality(MemberSlots(article_groups, articles[i])) = 1
        /\ \A g \in 1..Len(article_groups) :
              \A k \in 1..Len(article_groups[g].all_articles) :
                  \E i \in 1..Len(articles) :
                      article_groups[g].all_articles[k] = articles[i]

\* C1 witness: three articles were returned as a group of two and a group of
\* one
C1_Witness ==
    /\ pc = "cluster_done"
    /\ Len(articles) = 3
    /\ Len(article_groups) = 2
    /\ Len(article_groups[1].all_articles) = 2
    /\ Len(article_groups[2].all_articles) = 1

\* the groups built so far: the finished ones and the one under construction
GroupsSoFar ==
    {groups[g] : g \in 1..Len(groups)}
    \cup {article_groups[g] : g \in 1..Len(article_groups)}
    \cup (IF pc = "cluster_inner" THEN {group} ELSE {})

\* C2: in every group, no entry of related_sources names the source of the
\* group's primary article.
C2_NoPrimarySourceInRelated ==
    \A g \in GroupsSoFar :
        \A r \in 1..Len(g.related_sources) :
            g.related_sources[r].name # g.primary.source

\* C2 witness: a returned group of three members, one of them from the
\* primary's source and one from another source, lists one related source
C2_Witness ==
    /\ pc = "cluster_done"
    /\ \E g \in 1..Len(article_groups) :
          /\ Len(article_groups[g].all_articles) = 3
          /\ Len(article_groups[g].related_sources) = 1
          /\ \E k \in 2..3 :
                article_groups[g].all_articles[k].source
                    = article_groups[g].primary.source

\* the calendar date of a datetime as displayed (in IST)
DisplayDate(date) == to_local_datetime(date).wall \div MinutesPerDay

\* C3 (as stated): two articles whose published_at fall on different calendar
\* dates of the display timezone (IST) are never in the same group.
C3_SameDisplayDateInGroup ==
    \A g \in GroupsSoFar :
        \A k, l \in 1..Len(g.all_articles) :
            (~g.all_articles[k].date.none /\ ~g.all_articles[l].date.none)
            => DisplayDate(g.all_articles[k].date) = DisplayDate(g.all_articles[l].date)

\* C8: every call of group_similar_articles on the same list, in the same
\* order, returns the same sequence of groups (primaries, members and
\* related entries).
C8_Deterministic ==
    \A k \in 2..Len(runs) :
        /\ runs[k].input = runs[1].input
        /\ runs[k].output = runs[1].output

\* C8 witness: two calls have returned, with a group of two members and
\* another group
C8_Witness ==
    /\ pc = "cluster_done"
    /\ Len(runs) = 2
    /\ Len(runs[2].output) = 2
    /\ \E g \in 1..2 : Len(runs[2].output[g].all_articles) = 2

\* two articles are directly similar: the quick filter lets the pair through
\* and titles_are_similar holds
DirectlySimilar(a, b) ==
    /\ ~PrefilterSkips(SignatureOf(a.title), SignatureOf(b.title))
    /\ TitlesSimilar(a.title, b.title)

\* C9: for exactly two articles of one date bucket that are directly
\* similar, one group is returned; its primary is the first article, its
\* members are both, and related_sources holds the second article's source
\* name, site URL and link if the sources differ and nothing if they are the
\* same.
C9_TwoSimilarArticles ==
    (/\ pc = "cluster_done"
     /\ Len(articles) = 2
     /\ DateKey(articles[1]) = DateKey(articles[2])
     /\ DirectlySimilar(articles[1], articles[2]))
    => article_groups =
          << [primary |-> articles[1],
              related_sources |->
                  IF articles[2].source # articles[1].source
                  THEN << [name |-> articles[2].source,
                           url |-> articles[2].source_url,
                           link |-> articles[2].link] >>
                  ELSE <<>>,
              all_articles |-> <<articles[1], articles[2]>>] >>

\* C9 witness: boundary scenario A, "RBI cuts repo rate by 25bps" from A and
\* "RBI Cuts Repo Rate By 25 Bps" from B on 2024-01-10, has returned one group
\* with B as its related source
C9_Witness ==
    /\ pc = "cluster_done"
    /\ Len(articles) = 2
    /\ articles[1].title = TitleA /\ articles[1].source = "A"
    /\ articles[2].title = TitleB /\ articles[2].source = "B"
    /\ articles[1].date = DateX /\ articles[2].date = DateX
    /\ DirectlySimilar(articles[1], articles[2])
    /\ Len(article_groups) = 1
    /\ Len(article_groups[1].related_sources) = 1
    /\ article_groups[1].related_sources[1].name = "B"

\* C10 (as stated): within one group no two entries of related_sources carry
\* the same source name.
C10_RelatedSourcesDistinct ==
    \A g \in GroupsSoFar :
        \A r, q \in 1..Len(g.related_sources) :
            r # q => g.related_sources[r].name # g.related_sources[q].name


\* overlap / min(len) of the signatures of two titles is below 0.5, both
\* signatures being non-empty; computed from get_title_signature
OverlapBelowHalf(title1, title2) ==
    LET sig1 == get_title_signature(title1)
        sig2 == get_title_signature(title2)
        shared == Cardinality(sig1 \cap sig2)
    IN  /\ Cardinality(sig1) > 0
        /\ Cardinality(sig2) > 0
        /\ 2 * shared < Cardinality(sig1)
        /\ 2 * shared < Cardinality(sig2)

\* the pairs of drawn titles with OverlapBelowHalf
OverlapBelowHalfPairs ==
    UNION {IF OverlapBelowHalf(p[1], p[2]) THEN {p} ELSE {} :
              p \in DrawnTitles \X DrawnTitles}

\* C11: a candidate whose signature and the primary's are both non-empty and
\* overlap in less than half of the smaller one is never a member of that
\* primary's group, whatever the character similarity of the two titles.
C11_PrefilterKeepsApart ==
    \A g \in GroupsSoFar : \A k \in 2..Len(g.all_articles) :
        <<g.primary.title, g.all_articles[k].title>> \notin OverlapBelowHalfPairs

\* C11 witness: a finished call on "Banks raise rates" followed by "Bank
\* raises rate" in one bucket, two titles that titles_are_similar accepts
\* and the quick filter tells apart; they are the primaries of two groups.
C11_Witness ==
    /\ pc = "cluster_done"
    /\ Len(articles) = 2
    /\ articles[1].title = TitleD
    /\ articles[2].title = TitleE
    /\ DateKey(articles[1]) = DateKey(articles[2])
    /\ titles_are_similar(TitleD, TitleE)
    /\ <<TitleD, TitleE>> \in OverlapBelowHalfPairs
    /\ Len(article_groups) = 2
    /\ article_groups[1].primary = articles[1]
    /\ article_groups[2].primary = articles[2]


(***************************************************************************)
(* Properties of the run (checked under Spec)                              *)
(***************************************************************************)

\* the instant of a datetime that has a UTC offset, in minutes
PublishedAt(date) == date.wall - date.off

\* positions of seq whose article has no date
Undated(seq) == {k \in 1..Len(seq) : seq[k].date.none}

\* positions of seq whose article has a date with a UTC offset that is not
\* earlier than five days before the instant now
DatedWithinWindow(seq, now) ==
    {k \in 1..Len(seq) :
        /\ ~seq[k].date.none
        /\ seq[k].date.aware
        /\ PublishedAt(seq[k].date) >= now - 5 * MinutesPerDay}

\* positions of seq whose article has a date without a UTC offset
DatedNaive(seq) ==
    {k \in 1..Len(seq) : ~seq[k].date.none /\ ~seq[k].date.aware}

C15_RejectedNeverShadows ==
    pc = "age_gate" =>
        \A j \in 1..Len(regular_articles) :
            LET b == regular_articles[j]
            IN  (/\ ~IsBlankLink(b.link)
                 /\ ~should_filter_article(b)
                 /\ \A i \in 1..(j - 1) :
                       \/ should_filter_article(regular_articles[i])
                       \/ IsBlankLink(regular_articles[i].link)
                       \/ NormalizeUrl(regular_articles[i].link) # NormalizeUrl(b.link))
                => \E k \in 1..Len(filtered_articles) : filtered_articles[k] = b

\* C16: a fetch that fails contributes no article: no collected article has
\* the source of a feed whose task raised or ended in its except clause.
C16_FailedFetchContributesNothing ==
    \A i \in 1..Len(futures) :
        (futures[i].collected /\ (futures[i].raised \/ futures[i].failed))
        => \A k \in 1..Len(all_articles) : all_articles[k].source # feeds[i].name

\* the positions of main() from the clustering call on
PassStages ==
    {"cluster_call", "cluster_outer", "cluster_inner", "cluster_done",
     "export", "done"}

\* C17: a run with feeds whose fetch stage collects no article ends early: it
\* never reaches the clustering call, the rendering or the export.
C17_NoPassOnZeroArticles ==
    (feeds # <<>> /\ pc \in PassStages) => all_articles # <<>>

\* the positions of main() before the with block of the executor is left
FetchStages == {"start", "submit", "collect"}

\* C18: the stages after the fetch start only when every submitted task is
\* done and collected, so no worker runs while they read the collected list;
\* and the list changes only by the collecting loop of the main thread
\* taking the result of a done task.
C18_DownstreamAfterAllFetches ==
    /\ [](pc \notin FetchStages =>
             /\ Len(futures) = Len(feeds)
             /\ \A i \in 1..Len(futures) :
                   futures[i].state = "done" /\ futures[i].collected)
    /\ [][all_articles' # all_articles =>
             /\ pc = "collect"
             /\ pc' = "collect"
             /\ \E i \in 1..Len(futures) :
                   /\ futures[i].state = "done"
                   /\ ~futures[i].collected
                   /\ futures'[i].collected
                   /\ all_articles' = all_articles \o futures[i].articles]_vars

\* C18 witness: the run is past the fetch with two tasks, one that returned
\* articles and one that failed, both done and collected.
C18_Witness ==
    /\ pc = "twitter_cutoff"
    /\ Len(futures) = 2
    /\ \A i \in 1..2 : futures[i].state = "done" /\ futures[i].collected
    /\ \E i \in 1..2 : futures[i].failed
    /\ all_articles # <<>>

\* C20: the exported snapshot has one record per group that clustering
\* returned, in the same order, with the title, link, source, ISO date (or
\* null) and category of the group's primary, and has_related true exactly
\* when the group lists a related source.
C20_ExportOnePerGroup ==
    exported.written =>
        /\ article_groups = runs[Len(runs)].output
        /\ Len(exported.articles) = Len(article_groups)
        /\ \A k \in 1..Len(article_groups) :
              LET r == exported.articles[k]
                  primary == article_groups[k].primary
              IN  /\ r.title = primary.title
                  /\ r.url = primary.link
                  /\ r.source = primary.source
                  /\ r.category = primary.category
                  /\ r.date = IF primary.date.none THEN JsonNull
                               ELSE IsoFormat(primary.date)
                  /\ r.has_related <=> article_groups[k].related_sources # <<>>

\* C20 witness: the snapshot is written for two groups or more, one with a
\* related source and one with a second article of its own source only.
C20_Witness ==
    /\ exported.written
    /\ Len(article_groups) >= 2
    /\ \E k \in 1..Len(article_groups) :
          /\ article_groups[k].related_sources # <<>>
          /\ exported.articles[k].has_related
    /\ \E k \in 1..Len(article_groups) :
          /\ Len(article_groups[k].all_articles) > 1
          /\ article_groups[k].related_sources = <<>>
          /\ ~exported.articles[k].has_related


(***************************************************************************)
(* Properties of the presentation (checked under SpecPresent)              *)
(***************************************************************************)

\* the position of a group in a list of groups with distinct primary links
PositionOf(gs, g) ==
    CHOOSE k \in 1..Len(gs) : gs[k].primary.link = g.primary.link

\* generate_html has returned
Presented == pc \in {"export", "done"}

\* C13: the groups generate_html displays, after the cap and the second
\* sort, are in non-increasing order of the instant of their primary, every
\* undated group behind every dated one, the undated groups in the order
\* they came in.
C13_NewestFirstUndatedLast ==
    Presented =>
        \A i, j \in 1..Len(sorted_groups) :
            i < j =>
                LET d1 == sorted_groups[i].primary.date
                    d2 == sorted_groups[j].primary.date
                IN  /\ d1.none => d2.none
                    /\ (~d1.none /\ ~d2.none) => PublishedAt(d1) >= PublishedAt(d2)
                    /\ (d1.none /\ d2.none) =>
                          PositionOf(article_groups, sorted_groups[i])
                          < PositionOf(article_groups, sorted_groups[j])

\* C13 witness: generate_html has returned fewer groups than it got, among
\* them dated groups and two undated ones, for a list that came in with an
\* older dated group ahead of a newer one.
C13_Witness ==
    /\ Presented
    /\ Len(sorted_groups) < Len(article_groups)
    /\ \E i, j \in 1..Len(sorted_groups) :
          /\ i < j
          /\ sorted_groups[i].primary.date.none
          /\ sorted_groups[j].primary.date.none
    /\ ~sorted_groups[1].primary.date.none
    /\ \E i, j \in 1..Len(article_groups) :
          /\ i < j
          /\ ~article_groups[i].primary.date.none
          /\ ~article_groups[j].primary.date.none
          /\ PublishedAt(article_groups[i].primary.date)
             < PublishedAt(article_groups[j].primary.date)

\* how recent a group is: the instant of its primary, an undated one being
\* older than every dated one
Recency(g) == IF g.primary.date.none THEN -1 ELSE PublishedAt(g.primary.date)

\* the groups of gs whose primary is from a source
OfSource(gs, source) == {k \in 1..Len(gs) : gs[k].primary.source = source}

\* the incoming groups that generate_html does not display
Dropped ==
    {k \in 1..Len(article_groups) :
        \A d \in 1..Len(sorted_groups) :
            sorted_groups[d].primary.link # article_groups[k].primary.link}

\* C14: per source generate_html displays the 50 most recent groups, or all
\* of them when there are fewer: every displayed group came in, no source
\* has more than 50, a group is dropped only from a source that has 50, and
\* no dropped group is more recent than a displayed one of its source.
C14_CapKeepsMostRecent ==
    Presented =>
        /\ \A d \in 1..Len(sorted_groups) :
              \E k \in 1..Len(article_groups) : article_groups[k] = sorted_groups[d]
        /\ \A k \in 1..Len(article_groups) :
              LET source == article_groups[k].primary.source
              IN  /\ Cardinality(OfSource(sorted_groups, source)) <= 50
                  /\ k \in Dropped =>
                        /\ Cardinality(OfSource(sorted_groups, source)) = 50
                        /\ \A d \in OfSource(sorted_groups, source) :
                              Recency(article_groups[k]) <= Recency(sorted_groups[d])

\* C14 witness: generate_html has returned 50 groups of a source that came
\* in with more, older groups first, and the oldest one, which came in
\* among the first two, is dropped.
C14_Witness ==
    /\ Presented
    /\ Cardinality(OfSource(article_groups, "A")) > 50
    /\ Cardinality(OfSource(sorted_groups, "A")) = 50
    /\ \E k \in Dropped :
          /\ k <= 2
          /\ ~article_groups[k].primary.date.none
          /\ \A a \in OfSource(article_groups, "A") :
                Recency(article_groups[k]) <= Recency(article_groups[a])

(***************************************************************************)
(* Termination of the clustering call (checked under SpecClusterFair)      *)
(***************************************************************************)

\* the groups of the call in progress: those appended, then the one under
\* construction
GroupsInCall ==
    groups \o (IF pc = "cluster_inner" THEN <<group>> ELSE <<>>)

\* C19: a call of group_similar_articles always returns; while it runs no
\* article is in two groups or twice in one, the candidates scanned lie
\* behind the primary in its bucket, and the position of the outer loops
\* (bucket, then place in the bucket) never goes back.
C19_ClusteringTerminates ==
    /\ (pc = "cluster_call") ~> (pc = "cluster_done")
    /\ [](\A i \in 1..Len(articles) :
             Cardinality(MemberSlots(GroupsInCall, articles[i])) <= 1)
    /\ [](pc = "cluster_inner" => jpos > idx)
    /\ [][pc # "cluster_call" =>
             \/ bkt' > bkt
             \/ bkt' = bkt /\ idx' >= idx]_vars

\* C19 witness: a call has returned for a list of three articles of one
\* bucket of which the second was claimed by the first, so that the outer
\* loop skipped it, and the third opened a group of its own.
C19_Witness ==
    /\ pc = "cluster_done"
    /\ Len(articles) = 3
    /\ Len(articles_by_date) = 1
    /\ Len(article_groups) = 2
    /\ article_groups[1].all_articles = <<articles[1], articles[2]>>
    /\ article_groups[2].primary = articles[3]

(***************************************************************************)
(* Properties of the greedy scan (checked under SpecChain)                 *)
(***************************************************************************)

\* a candidate title passes against a primary's title on its own: the quick
\* filter lets the pair through (a signature is empty, or the overlap is at
\* least half of the smaller signature) and the normalized titles are equal
\* or their ratio is at least 0.75; computed from get_title_signature,
\* normalize_title and the ratio
PassesOnItsOwn(primary_title, title) ==
    LET sig1 == get_title_signature(primary_title)
        sig2 == get_title_signature(title)
        norm1 == normalize_title(primary_title)
        norm2 == normalize_title(title)
        shared == Cardinality(sig1 \cap sig2)
    IN  /\ \/ sig1 = {}
           \/ sig2 = {}
           \/ 2 * shared >= Cardinality(sig1)
           \/ 2 * shared >= Cardinality(sig2)
        /\ \/ norm1 = norm2
           \/ RatioAtLeast(norm1, norm2, SimilarityThresholdPct)

\* the pairs <<primary's title, candidate's title>> of drawn titles with
\* PassesOnItsOwn
PassesOnItsOwnPairs ==
    UNION {IF PassesOnItsOwn(p[1], p[2]) THEN {p} ELSE {} :
              p \in DrawnTitles \X DrawnTitles}

\* C21: every member of a group other than its primary passes against the
\* primary on its own; so an article that is similar to a member but does
\* not pass against the primary is not in the group.
C21_MembersMatchPrimary ==
    \A g \in GroupsSoFar : \A k \in 2..Len(g.all_articles) :
        <<g.primary.title, g.all_articles[k].title>> \in PassesOnItsOwnPairs

\* C21 witness: a finished call on the chain "Gold rate rises", "Gold rate
\* rises today", "Gold rate today" in one bucket: the third passes against
\* the second, a member of the first group, and not against its primary, and
\* it is returned as a group of its own.
C21_Witness ==
    /\ pc = "cluster_done"
    /\ Len(articles) = 3
    /\ articles[1].title = TitleX
    /\ articles[2].title = TitleY
    /\ articles[3].title = TitleZ
    /\ <<TitleY, TitleZ>> \in PassesOnItsOwnPairs
    /\ <<TitleX, TitleZ>> \notin PassesOnItsOwnPairs
    /\ Len(article_groups) = 2
    /\ article_groups[1].all_articles = <<articles[1], articles[2]>>
    /\ article_groups[2].all_articles = <<articles[3]>>

\* the pairs of drawn titles that have one normalized title, not empty
EqualNormalizedPairs ==
    UNION {IF normalize_title(p[1]) # "" /\ normalize_title(p[1]) = normalize_title(p[2])
           THEN {p} ELSE {} : p \in DrawnTitles \X DrawnTitles}

\* articles a and b are members of one group of gs
InOneGroup(gs, a, b) ==
    \E g \in 1..Len(gs) :
        /\ \E k \in 1..Len(gs[g].all_articles) : gs[g].all_articles[k] = a
        /\ \E k \in 1..Len(gs[g].all_articles) : gs[g].all_articles[k] = b

\* C22: when the call has returned, two input articles of one bucket whose
\* normalized titles are equal and not empty are members of one group.
C22_EqualTitlesTogether ==
    pc = "cluster_done" =>
        \A i, j \in 1..Len(articles) :
            (/\ DateKey(articles[i]) = DateKey(articles[j])
             /\ <<articles[i].title, articles[j].title>> \in EqualNormalizedPairs)
            => InOneGroup(article_groups, articles[i], articles[j])

\* C22 witness: "Gold rate rises" and "BREAKING: Gold rate rises!" came
\* behind "Gold rate rises today" in one bucket, in either order, and the
\* returned group of that primary holds both.
C22_Witness ==
    /\ pc = "cluster_done"
    /\ Len(articles) = 3
    /\ articles[1].title = TitleY
    /\ articles[2].title = TitleXBreaking
    /\ articles[3].title = TitleX
    /\ DateKey(articles[2]) = DateKey(articles[3])
    /\ normalize_title(TitleX) = normalize_title(TitleXBreaking)
    /\ Len(article_groups) = 1
    /\ Len(article_groups[1].all_articles) = 3

\* the position of article a in the input list (links are distinct)
InputPosition(a) == CHOOSE i \in 1..Len(articles) : articles[i] = a

\* C23: in every group all_articles is not empty, its first element is the
\* primary, and its elements are in increasing input position; so the
\* primary is the member with the smallest input position.
C23_PrimaryFirstMembersInOrder ==
    \A g \in GroupsSoFar :
        /\ Len(g.all_articles) >= 1
        /\ g.all_articles[1] = g.primary
        /\ \A k, l \in 1..Len(g.all_articles) :
              k < l => InputPosition(g.all_articles[k]) < InputPosition(g.all_articles[l])

\* C23 witness: a finished call returned the articles at positions 1 and 3
\* as one group and the article at position 2, which stands between them, as
\* another
C23_Witness ==
    /\ pc = "cluster_done"
    /\ Len(articles) = 3
    /\ Len(article_groups) = 2
    /\ article_groups[1].primary = articles[1]
    /\ article_groups[1].all_articles = <<articles[1], articles[3]>>
    /\ article_groups[2].all_articles = <<articles[2]>>
    /\ DateKey(articles[1]) = DateKey(articles[2])

\* the drawn titles whose normalized title is empty
EmptyNormalizedTitles == {t \in DrawnTitles : normalize_title(t) = ""}

\* C24: a group with a member whose normalized title is empty has that
\* member alone: such an article is attached to no primary and, as a
\* primary, gets no other member.
C24_EmptyTitleAlone ==
    \A g \in GroupsSoFar :
        (\E k \in 1..Len(g.all_articles) :
            g.all_articles[k].title \in EmptyNormalizedTitles)
        => Len(g.all_articles) = 1

\* C24 witness: a finished call on two articles titled "!!!" followed by
\* "Gold rate rises", all in one bucket, returned three groups
C24_Witness ==
    /\ pc = "cluster_done"
    /\ Len(articles) = 3
    /\ articles[1].title = TitleBlank
    /\ articles[2].title = TitleBlank
    /\ articles[3].title = TitleX
    /\ TitleBlank \in EmptyNormalizedTitles
    /\ DateKey(articles[1]) = DateKey(articles[2])
    /\ DateKey(articles[2]) = DateKey(articles[3])
    /\ Len(article_groups) = 3

\* C28: when the call has returned, for two groups of one bucket of which
\* the first has the primary earlier in the input, no member of the second
\* is directly similar to the primary of the first (the comparison being
\* the one the scan makes, with the primary's title as first argument).
C28_GroupsMaximal ==
    pc = "cluster_done" =>
        \A g, h \in 1..Len(article_groups) :
            (/\ DateKey(article_groups[g].primary) = DateKey(article_groups[h].primary)
             /\ InputPosition(article_groups[g].primary)
                    < InputPosition(article_groups[h].primary))
            => \A k \in 1..Len(article_groups[h].all_articles) :
                   ~DirectlySimilar(article_groups[g].primary,
                                    article_groups[h].all_articles[k])

\* C28 witness: a finished call on "Gold rate today", "Gold rate rises" and
\* "BREAKING: Gold rate rises!" in one bucket returned the first alone and
\* then a group of the other two
C28_Witness ==
    /\ pc = "cluster_done"
    /\ Len(articles) = 3
    /\ articles[1].title = TitleZ
    /\ DateKey(articles[1]) = DateKey(articles[2])
    /\ DateKey(articles[2]) = DateKey(articles[3])
    /\ Len(article_groups) = 2
    /\ article_groups[1].all_articles = <<articles[1]>>
    /\ article_groups[2].all_articles = <<articles[2], articles[3]>>

(***************************************************************************)
(* Frame and bucket properties of clustering (checked under SpecCluster)   *)
(***************************************************************************)

\* C25: no step of a call changes the input list or a field of one of its
\* articles; every call starts with an empty set of claimed positions; and a
\* later call on the list returns what the first returned.
C25_InputUntouchedUsedFresh ==
    /\ [][/\ articles' = articles
           /\ (pc = "cluster_call" /\ pc' = "cluster_outer") => used' = {}]_vars
    /\ [](\A k \in 1..Len(runs) :
              /\ runs[k].input = articles
              /\ runs[k].output = runs[1].output)

\* C25 witness: the second call on a list of three articles has returned;
\* the first call had claimed all three for one group and left them claimed
C25_Witness ==
    /\ pc = "cluster_done"
    /\ Len(runs) = 2
    /\ Len(articles) = 3
    /\ used = {1, 2, 3}
    /\ Len(runs[1].output) = 1
    /\ runs[2].output = runs[1].output
    /\ runs[2].input = articles

\* the calendar day of a datetime as it is stored, in its own offset
OwnDay(date) == date.wall \div MinutesPerDay

\* C29: two members of a group are both undated, or both dated with the same
\* calendar date in their own offsets; an undated article and a dated one are
\* never in one group.
C29_GroupWithinOwnDate ==
    \A g \in GroupsSoFar :
        \A k, l \in 1..Len(g.all_articles) :
            LET a == g.all_articles[k].date
                b == g.all_articles[l].date
            IN  \/ a.none /\ b.none
                \/ ~a.none /\ ~b.none /\ OwnDay(a) = OwnDay(b)

\* C29 witness: of three similar articles the second (2024-01-10 20:00
\* +00:00) and the third (2024-01-11 01:30 +05:30) are the same instant; the
\* second is grouped with the first, dated 2024-01-10 in its offset, and the
\* third is a group of its own
C29_Witness ==
    /\ pc = "cluster_done"
    /\ Len(articles) = 3
    /\ articles[1].date = DateX
    /\ articles[2].date = DateY
    /\ articles[3].date = DateZ
    /\ PublishedAt(DateY) = PublishedAt(DateZ)
    /\ DirectlySimilar(articles[1], articles[3])
    /\ Len(article_groups) = 2
    /\ article_groups[1].all_articles = <<articles[1], articles[2]>>
    /\ article_groups[2].all_articles = <<articles[3]>>

(***************************************************************************)
(* Properties of the YouTube cache (checked under SpecRuns)                *)
(***************************************************************************)

\* the runs, by their place in video_log, that fetched at least one video
FetchingRuns == {r \in 1..Len(video_log) : video_log[r] # <<>>}

\* the last of them
LastFetchingRun == CHOOSE r \in FetchingRuns : \A q \in FetchingRuns : q <= r

\* a fetched video as it is read back from the cache: the same dict, a
\* datetime without tzinfo having become an IST datetime
ReadBack(v) ==
    [v EXCEPT !.date = IF v.date.none \/ v.date.aware THEN v.date
                       ELSE DateTime(v.date.wall, IstOffsetMinutes)]

\* the positions of a run behind its cache step
BehindCacheStep ==
    /\ feeds # <<>>
    /\ pc \notin FetchStages \cup {"youtube_cache"}

WrittenVideos == IF video_log = <<>> THEN <<>> ELSE video_log[Len(video_log)]

\* whether a video is dated within the seven days before now
WithinSevenDays(v, now) ==
    /\ ~v.date.none
    /\ InstantAssumingIst(v.date) >= now - WindowDays * MinutesPerDay

\* C27: once load_sources_7d has returned, every video that main() wrote to
\* youtube_cache.json with a date within the last seven days is among the
\* items it returned, as an item of source_type "youtube"
C27_CachedVideosLoaded ==
    (/\ wsw_pc # "start"
     /\ video_log # <<>>
     /\ youtube_cache = WrittenCache(WrittenVideos))
    => \A k \in 1..Len(WrittenVideos) :
          WithinSevenDays(WrittenVideos[k], clock)
          => \E i \in 1..Len(wsw_items) :
                /\ wsw_items[i].source_type = "youtube"
                /\ wsw_items[i].url = WrittenVideos[k].link

\* whether a call yields a non-empty list of clusters: JSON objects
YieldsClusters(response) ==
    /\ ~response.raised
    /\ Unwrapped(response.value).type = "array"
    /\ Unwrapped(response.value).elements # <<>>
    /\ \A k \in 1..Len(Unwrapped(response.value).elements) :
          Unwrapped(response.value).elements[k].type = "object"

\* the calls made so far to the model of a key, in order
CallsOf(key) == SelectSeq(wsw_calls, LAMBDA c : c.key = key)

\* whether some call of the run so far yielded clusters
SomeModelYielded ==
    \E k \in 1..Len(wsw_calls) : YieldsClusters(wsw_calls[k].response)

\* C30: in a run of wsw_ranker.main that reaches the models, each model is
\* called at most twice, and a second time only if its first call raised or
\* yielded no clusters; if no call yielded a non-empty cluster list the
\* process ends with status 1 and wsw_clusters.json is as it was; otherwise
\* the process ends with wsw_clusters.json holding the complete new results,
\* and the file only ever changes to such results
C30_RetryExitAndReplace ==
    /\ [](\A m \in 1..Len(WSW_MODELS) :
             LET calls == CallsOf(WSW_MODELS[m].key)
             IN  /\ Len(calls) <= AttemptsPerModel
                 /\ Len(calls) > 1 => ~YieldsClusters(calls[1].response))
    /\ []((wsw_pc = "done" /\ wsw_items # <<>>)
          => IF SomeModelYielded
             THEN /\ Len(results.providers) = Len(WSW_MODELS)
                  /\ wsw_clusters_json = ResultsFile(results)
             ELSE exit_status = "1")
    /\ [][wsw_clusters_json' # wsw_clusters_json
          => /\ SomeModelYielded
             /\ wsw_clusters_json' = ResultsFile(results)]_vars

====
